---- MODULE Spec2Model ----
(***************************************************************************)
(* Model of the spaced-repetition scheduler of src/App.tsx (updateSRS,     *)
(* toggleBookmark, dissectQuestion, dueSRSItems) and of the topic          *)
(* canonicalisation of src/components/AnalyticsView.tsx.                   *)
(*                                                                         *)
(* Arithmetic.  The ease of a card is a double that only ever moves in     *)
(* steps of 0.2, 0.15 and 0.15 from 2.3 with a floor of 1.3, so it is kept *)
(* as an integer number of twentieths (2.3 = 46, 1.3 = 26).  Math.ceil of  *)
(* a double product differs from the ceiling of the exact product only     *)
(* when the exact product is an integer: the accumulated rounding error of *)
(* the ease (1.5000000000000002 for 1.5) can then push the product just    *)
(* above it.  That outcome is kept as a nondeterministic choice.           *)
(*                                                                         *)
(* Time.  Date.now() is the variable now, counted in ticks of which        *)
(* DayTicks make the 24*60*60*1000 ms of one day.                          *)
(***************************************************************************)
EXTENDS Integers, Sequences, FiniteSets, TLC

VARIABLES
  now,             \* Date.now()
  srsStates,       \* Record<string, SRSState>, in key insertion order
  bookmarks,       \* Question[] (ids)
  questionLibrary, \* Record<string, Question> (its keys)
  masteryCards,    \* Record<string, MasteryCard[]>, in key insertion order
  inflight,        \* generateMasteryCards calls awaiting their result
  queue,           \* state updaters handed to React and not yet applied
  dueSRSItems,     \* the memoised due list
  dueNow,          \* the `now` the memoised due list was computed with
  flushed,         \* the updaters the last render applied
  rated,           \* one call of the updateSRS updater: its arguments and result
  tags,            \* argument of dissectClinicalTopic
  cleanTopic,      \* its result
  history,         \* HistoricalSession[] of App, newest first
  lifetimeStats,   \* LifetimeStats | undefined of App
  db,              \* the kv object store of DatabaseService
  saves,           \* saveSession calls under way
  stats,           \* result of the stats memo of AnalyticsView
  concepts,        \* q.clinicalConcepts of one answered question
  keys,            \* its keysToTrack
  subtopicData,    \* the bucket rows before sorting
  sortMethod,      \* sortMethod of AnalyticsView
  sorted,          \* the bucket rows after sorting
  jsonData,        \* argument of fullImport
  imported,        \* its result
  isReady,         \* isReady of App
  conn,            \* DatabaseService: db and initPromise
  loadPhase,       \* position of initTask in initData
  studyPlan,       \* StudyPlan | null of App
  effectDeps,      \* the dependencies each sync effect last ran with
  puts,            \* DatabaseService.set calls that have not put yet
  session,         \* QuizSession | null of App
  selectedAnswer,  \* number | null
  pendingQuitAnswer, \* number | null
  showQuitConfirm, \* the quit dialog is open
  view,            \* the view shown
  requests,        \* generation requests of quizzes that have not settled
  maxRetries,      \* argument of fetchWithRetry
  retries,         \* its counter
  calls,           \* how often it has called fn
  pc,              \* where it stands
  outcome          \* what it returned or threw

vars == <<now, srsStates, bookmarks, questionLibrary, masteryCards, inflight,
          queue, dueSRSItems, dueNow, flushed, rated, tags, cleanTopic,
          history, lifetimeStats, db, saves, stats, concepts, keys,
          subtopicData, sortMethod, sorted, jsonData, imported, isReady,
          conn, loadPhase, studyPlan, effectDeps, puts, session,
          selectedAnswer, pendingQuitAnswer, showQuitConfirm, view, requests,
          maxRetries, retries, calls, pc, outcome>>

srsVars == <<now, srsStates, bookmarks, questionLibrary, masteryCards,
             inflight, queue, dueSRSItems, dueNow, flushed>>

\* the variables of the specifications of single functions
pureVars == <<rated, tags, cleanTopic>>

\* the session history in memory and in the database
storeVars == <<history, lifetimeStats, db, saves>>

\* the variables of the analytics pass, its parts, and the import
passVars == <<stats, concepts, keys, subtopicData, sortMethod, sorted,
              jsonData, imported>>

\* the start of the application: initData, the sync effects and the store
loadVars == <<isReady, conn, loadPhase, studyPlan, effectDeps, puts>>

\* the quiz under way
quizVars == <<session, selectedAnswer, pendingQuitAnswer, showQuitConfirm,
              view, requests>>

\* one call of fetchWithRetry
fetchVars == <<maxRetries, retries, calls, pc, outcome>>

appVars == <<loadVars, quizVars, fetchVars>>

----------------------------------------------------------------------------
\* Bounds of the model

MaxNow == 3
MaxInterval == 200
MaxEase == 55
MaxQueue == 1
MaxLayers == 2
MaxInflight == 1
MaxInputInterval == 12
MaxInputReps == 3

\* Program constants (ease in twentieths)

DayTicks == 1
BaselineEase == 46
MinEase == 26
AgainPenalty == 4
HardPenalty == 3
EasyBonus == 3
EaseScale == 20
HardMultiplier == 24
FirstInterval == 1
SecondInterval == 6

QuestionIds == {"q1", "q2"}
GeneratedIds == {"m1", "q2"}
CardIds == QuestionIds \cup GeneratedIds
Ratings == {"again", "hard", "good", "easy"}
LifeRatings == {"again", "good"}
None == "none"

\* JSON null
Null == "null"

----------------------------------------------------------------------------
\* Helpers over keyed collections kept as sequences (insertion order)

Max(a, b) == IF a >= b THEN a ELSE b

HasCard(states, id) == \E i \in DOMAIN states : states[i].cardId = id

CardOf(states, id) == states[CHOOSE i \in DOMAIN states : states[i].cardId = id]

CardKeys(states) == {states[i].cardId : i \in DOMAIN states}

\* slip: the updater returns the rated card alone, without ...prev
PutCardAlone(prev, rec) == <<rec>>

PutCard(prev, rec) ==
  IF HasCard(prev, rec.cardId)
  THEN [i \in DOMAIN prev |-> IF prev[i].cardId = rec.cardId THEN rec ELSE prev[i]]
  ELSE Append(prev, rec)

HasMastery(mc, q) == \E i \in DOMAIN mc : mc[i].parentId = q

PutMastery(prev, q, layers) ==
  IF HasMastery(prev, q)
  THEN [i \in DOMAIN prev |-> IF prev[i].parentId = q
                              THEN [parentId |-> q, cards |-> layers] ELSE prev[i]]
  ELSE Append(prev, [parentId |-> q, cards |-> layers])

RemoveId(s, id) == SelectSeq(s, LAMBDA b : b # id)

InSeq(s, x) == \E i \in DOMAIN s : s[i] = x

----------------------------------------------------------------------------
\* updateSRS (src/App.tsx 226-245)

DefaultCard(cardId) ==
  [cardId |-> cardId, nextReview |-> 0, interval |-> 0,
   ease |-> BaselineEase, repetitions |-> 0]

CeilDiv(a, b) == (a + b - 1) \div b

\* Math.ceil(interval * (num/den)); literal says the multiplier is a literal
\* of the source, whose double product rounds like the exact one.
CeilMul(interval, num, den, literal) ==
  LET k == CeilDiv(interval * num, den)
  IN  IF literal \/ interval = 0 \/ (interval * num) % den # 0
      THEN {k} ELSE {k, k + 1}

\* slip: the ease is lowered or raised before the interval is computed
NextIntervalsPostEase(current, rating) ==
  IF current.repetitions = 0 THEN {FirstInterval}
  ELSE IF current.repetitions = 1 THEN {SecondInterval}
  ELSE IF rating = "hard"
       THEN CeilMul(current.interval, HardMultiplier, EaseScale, TRUE)
  ELSE IF rating = "good"
       THEN CeilMul(current.interval, current.ease, EaseScale, FALSE)
  ELSE CeilMul(current.interval, 3 * (current.ease + EasyBonus),
               2 * EaseScale, FALSE)

\* slip: the branch for the second repetition is missing
NextIntervalsNoSecond(current, rating) ==
  IF current.repetitions = 0 THEN {FirstInterval}
  ELSE IF rating = "hard"
       THEN CeilMul(current.interval, HardMultiplier, EaseScale, TRUE)
  ELSE IF rating = "good"
       THEN CeilMul(current.interval, current.ease, EaseScale, FALSE)
  ELSE CeilMul(current.interval, 3 * current.ease, 2 * EaseScale, FALSE)

\* slip: hard leaves the interval of a card past its second repetition
NextIntervalsHardKeeps(current, rating) ==
  IF current.repetitions = 0 THEN {FirstInterval}
  ELSE IF current.repetitions = 1 THEN {SecondInterval}
  ELSE IF rating = "hard" THEN {current.interval}
  ELSE IF rating = "good"
       THEN CeilMul(current.interval, current.ease, EaseScale, FALSE)
  ELSE CeilMul(current.interval, 3 * current.ease, 2 * EaseScale, FALSE)

NextIntervals(current, rating) ==
  IF current.repetitions = 0 THEN {FirstInterval}
  ELSE IF current.repetitions = 1 THEN {SecondInterval}
  ELSE IF rating = "hard"
       THEN CeilMul(current.interval, HardMultiplier, EaseScale, TRUE)
  ELSE IF rating = "good"
       THEN CeilMul(current.interval, current.ease, EaseScale, FALSE)
  ELSE CeilMul(current.interval, 3 * current.ease, 2 * EaseScale, FALSE)

\* slip: Math.max is missing from the hard branch
NextEaseHardNoFloor(ease, rating) ==
  IF rating = "again" THEN Max(MinEase, ease - AgainPenalty)
  ELSE IF rating = "hard" THEN ease - HardPenalty
  ELSE IF rating = "easy" THEN ease + EasyBonus
  ELSE ease

NextEase(ease, rating) ==
  IF rating = "again" THEN Max(MinEase, ease - AgainPenalty)
  ELSE IF rating = "hard" THEN Max(MinEase, ease - HardPenalty)
  ELSE IF rating = "easy" THEN ease + EasyBonus
  ELSE ease

\* slip: again clears the repetitions and leaves the interval
RateCardKeepsInterval(current, rating, t) ==
  IF rating = "again"
  THEN {[current EXCEPT !.repetitions = 0,
                        !.ease = NextEase(current.ease, rating),
                        !.nextReview = t]}
  ELSE {[current EXCEPT !.interval = i,
                        !.repetitions = current.repetitions + 1,
                        !.ease = NextEase(current.ease, rating),
                        !.nextReview = t + i * DayTicks]
          : i \in NextIntervals(current, rating)}

\* the card records one rating can produce at time t
RateCard(current, rating, t) ==
  IF rating = "again"
  THEN {[current EXCEPT !.repetitions = 0, !.interval = 0,
                        !.ease = NextEase(current.ease, rating),
                        !.nextReview = t]}
  ELSE {[current EXCEPT !.interval = i,
                        !.repetitions = current.repetitions + 1,
                        !.ease = NextEase(current.ease, rating),
                        !.nextReview = t + i * DayTicks]
          : i \in NextIntervals(current, rating)}

\* the updater passed to setSrsStates, applied to prev at time t
updateSRS(prev, cardId, rating, t) ==
  LET current == IF HasCard(prev, cardId) THEN CardOf(prev, cardId)
                 ELSE DefaultCard(cardId)
  IN  {PutCard(prev, r) : r \in RateCard(current, rating, t)}

----------------------------------------------------------------------------
\* toggleBookmark, addToLibrary, dissectQuestion (src/App.tsx 218-287)

\* slip: the new card is due from the epoch, as the default of updateSRS is
trackBookmarkEpoch(prev, id, t) ==
  IF HasCard(prev, id) THEN prev
  ELSE PutCard(prev, [cardId |-> id, nextReview |-> 0, interval |-> 0,
                      ease |-> BaselineEase, repetitions |-> 0])

\* slip: the updater does not look for an existing card
trackBookmarkAlways(prev, id, t) ==
  PutCard(prev, [cardId |-> id, nextReview |-> t, interval |-> 0,
                 ease |-> BaselineEase, repetitions |-> 0])

\* the setSrsStates updater of toggleBookmark
trackBookmark(prev, id, t) ==
  IF HasCard(prev, id) THEN prev
  ELSE Append(prev, [cardId |-> id, nextReview |-> t, interval |-> 0,
                     ease |-> BaselineEase, repetitions |-> 0])

addToLibrary(prev, id) == prev \cup {id}

\* layers.forEach(card => updateSRS(card.id, 'again')): every outcome of
\* rating the cards of layers, in order, starting from the states in from
RECURSIVE rateLayers(_, _, _)
rateLayers(from, layers, t) ==
  IF layers = <<>> THEN from
  ELSE rateLayers(UNION {updateSRS(s, Head(layers), "again", t) : s \in from},
                  Tail(layers), t)

\* A queue entry is the updaters one handler call hands to React.
Entry(op, id, rating, layers) ==
  [op |-> op, id |-> id, rating |-> rating, layers |-> layers]

AppState(srs, bm, lib, mc) == [srs |-> srs, bm |-> bm, lib |-> lib, mc |-> mc]

\* the states one entry's updaters can produce from st when run at time t
ApplyEntry(st, e, t) ==
  CASE e.op = "rate" ->
         {[st EXCEPT !.srs = s] : s \in updateSRS(st.srs, e.id, e.rating, t)}
    [] e.op = "bookmark" ->
         {[st EXCEPT !.bm = Append(st.bm, e.id),
                     !.lib = addToLibrary(st.lib, e.id),
                     !.srs = trackBookmark(st.srs, e.id, t)]}
    [] e.op = "unbookmark" ->
         {[st EXCEPT !.bm = RemoveId(st.bm, e.id)]}
    [] e.op = "library" ->
         {[st EXCEPT !.lib = addToLibrary(st.lib, e.id)]}
    [] e.op = "dissected" ->
         {[st EXCEPT !.mc = PutMastery(st.mc, e.id, e.layers), !.srs = s]
            : s \in rateLayers({st.srs}, e.layers, t)}

RECURSIVE ApplyQueue(_, _, _)
ApplyQueue(from, q, t) ==
  IF q = <<>> THEN from
  ELSE ApplyQueue(UNION {ApplyEntry(st, Head(q), t) : st \in from}, Tail(q), t)

Committed == AppState(srsStates, bookmarks, questionLibrary, masteryCards)

----------------------------------------------------------------------------
\* dueSRSItems (src/App.tsx 495-506)

MasteryParents(mc, id) == {i \in DOMAIN mc : InSeq(mc[i].cards, id)}

NoItem == [type |-> "null", id |-> None, parentId |-> None]

\* slip: the mastery artifacts are searched before the library
ResolveCardMasteryFirst(s, lib, mc) ==
  IF MasteryParents(mc, s.cardId) # {}
  THEN LET i == CHOOSE i \in MasteryParents(mc, s.cardId) :
                  \A j \in MasteryParents(mc, s.cardId) : i <= j
       IN  [type |-> "mastery", id |-> s.cardId, parentId |-> mc[i].parentId]
  ELSE IF s.cardId \in lib
  THEN [type |-> "vignette", id |-> s.cardId, parentId |-> None]
  ELSE NoItem

\* the item a due card resolves to, or null
ResolveCard(s, lib, mc) ==
  IF s.cardId \in lib
  THEN [type |-> "vignette", id |-> s.cardId, parentId |-> None]
  ELSE IF MasteryParents(mc, s.cardId) # {}
  THEN LET i == CHOOSE i \in MasteryParents(mc, s.cardId) :
                  \A j \in MasteryParents(mc, s.cardId) : i <= j
       IN  [type |-> "mastery", id |-> s.cardId, parentId |-> mc[i].parentId]
  ELSE NoItem

RECURSIVE MapResolve(_, _, _)
MapResolve(due, lib, mc) ==
  IF due = <<>> THEN <<>>
  ELSE <<ResolveCard(Head(due), lib, mc)>> \o MapResolve(Tail(due), lib, mc)

\* slip: a card is due only after its nextReview, not at it
computeDueStrictly(srs, lib, mc, t) ==
  LET due == SelectSeq(srs, LAMBDA s : s.nextReview < t)
  IN  SelectSeq(MapResolve(due, lib, mc), LAMBDA i : i # NoItem)

computeDueSRSItems(srs, lib, mc, t) ==
  LET due == SelectSeq(srs, LAMBDA s : s.nextReview <= t)
  IN  SelectSeq(MapResolve(due, lib, mc), LAMBDA i : i # NoItem)

----------------------------------------------------------------------------
\* The application.  A click handler's updaters are applied, after whatever
\* is still pending, in the render that ends the click; the updaters of an
\* async continuation (dissectQuestion after its await) wait in queue for
\* the next render.

LayerSeqs ==
  UNION {[1..n -> GeneratedIds] : n \in 0..MaxLayers}

WithinBounds(st) ==
  \A i \in DOMAIN st.srs :
    st.srs[i].interval <= MaxInterval /\ st.srs[i].ease <= MaxEase

\* every outcome of applying q stays inside the model's bounds
Bounded(q, t) ==
  \A st \in ApplyQueue({Committed}, q, t) : WithinBounds(st)

InflightCount ==
  LET RECURSIVE Sum(_)
      Sum(S) == IF S = {} THEN 0
                ELSE LET x == CHOOSE x \in S : TRUE
                     IN  inflight[x] + Sum(S \ {x})
  IN  Sum(QuestionIds)

\* useMemo compares its dependencies by reference: every updater but the
\* bookmark filter builds a new srsStates, questionLibrary or masteryCards
DepsChanged(q) == \E i \in DOMAIN q : q[i].op # "unbookmark"

\* React runs the updaters q in order at time t and renders
Flush(q, t) ==
  /\ \E st \in ApplyQueue({Committed}, q, t) :
       /\ srsStates' = st.srs
       /\ bookmarks' = st.bm
       /\ questionLibrary' = st.lib
       /\ masteryCards' = st.mc
       /\ IF DepsChanged(q)
          THEN /\ dueSRSItems' = computeDueSRSItems(st.srs, st.lib, st.mc, t)
               /\ dueNow' = t
          ELSE UNCHANGED <<dueSRSItems, dueNow>>
  /\ queue' = <<>>
  /\ flushed' = q

\* a click handler that hands entry e to React, dt ticks after the last event
Click(e, dt) ==
  /\ now + dt <= MaxNow
  /\ Bounded(Append(queue, e), now + dt)
  /\ now' = now + dt
  /\ Flush(Append(queue, e), now + dt)
  /\ UNCHANGED inflight
  /\ UNCHANGED <<appVars, pureVars, storeVars, passVars>>

SRSInit ==
  /\ now = 0
  /\ srsStates = <<>>
  /\ bookmarks = <<>>
  /\ questionLibrary = {}
  /\ masteryCards = <<>>
  /\ inflight = [q \in QuestionIds |-> 0]
  /\ queue = <<>>
  /\ dueSRSItems = <<>>
  /\ dueNow = 0
  /\ flushed = <<>>

\* startQuiz, as far as the cards see it: addToLibrary(questions), line 305
startQuiz(q, dt) ==
  /\ q \in QuestionIds
  /\ Click(Entry("library", q, None, <<>>), dt)

\* toggleBookmark(q): isAlreadyBookmarked is read from the rendered bookmarks
toggleBookmark(q, dt) ==
  IF InSeq(bookmarks, q)
  THEN Click(Entry("unbookmark", q, None, <<>>), dt)
  ELSE Click(Entry("bookmark", q, None, <<>>), dt)

\* onRate={updateSRS} (line 633): a rating of any card id
onRate(cardId, rating, dt) ==
  /\ rating \in Ratings
  /\ Click(Entry("rate", cardId, rating, <<>>), dt)

\* dissectQuestion up to its await: the guard of line 281 reads the rendered
\* masteryCards; q is a question shown by QuestionCard or BookmarksView
dissectQuestion(q, forceRegen, dt) ==
  /\ now + dt <= MaxNow
  /\ q \in questionLibrary \/ InSeq(bookmarks, q)
  /\ ~(HasMastery(masteryCards, q) /\ ~forceRegen)
  /\ InflightCount < MaxInflight
  /\ now' = now + dt
  /\ inflight' = [inflight EXCEPT ![q] = @ + 1]
  /\ UNCHANGED <<srsStates, bookmarks, questionLibrary, masteryCards, queue,
                 dueSRSItems, dueNow, flushed>>
  /\ UNCHANGED <<appVars, pureVars, storeVars, passVars>>

\* dissectQuestion after its await, lines 284-285
dissectResolved(q, layers, dt) ==
  /\ now + dt <= MaxNow
  /\ inflight[q] > 0
  /\ Len(queue) < MaxQueue
  /\ Bounded(Append(queue, Entry("dissected", q, None, layers)), now + dt)
  /\ now' = now + dt
  /\ inflight' = [inflight EXCEPT ![q] = @ - 1]
  /\ queue' = Append(queue, Entry("dissected", q, None, layers))
  /\ UNCHANGED <<srsStates, bookmarks, questionLibrary, masteryCards,
                 dueSRSItems, dueNow, flushed>>
  /\ UNCHANGED <<appVars, pureVars, storeVars, passVars>>

\* dissectQuestion when generateMasteryCards throws, line 286
dissectRejected(q, dt) ==
  /\ now + dt <= MaxNow
  /\ inflight[q] > 0
  /\ now' = now + dt
  /\ inflight' = [inflight EXCEPT ![q] = @ - 1]
  /\ UNCHANGED <<srsStates, bookmarks, questionLibrary, masteryCards, queue,
                 dueSRSItems, dueNow, flushed>>
  /\ UNCHANGED <<appVars, pureVars, storeVars, passVars>>

\* the render React schedules for the updaters of an async continuation
Render ==
  /\ queue # <<>>
  /\ Flush(queue, now)
  /\ UNCHANGED <<now, inflight>>
  /\ UNCHANGED <<appVars, pureVars, storeVars, passVars>>

\* time passes
Tick ==
  /\ now < MaxNow
  /\ now' = now + 1
  /\ UNCHANGED <<srsStates, bookmarks, questionLibrary, masteryCards, inflight,
                 queue, dueSRSItems, dueNow, flushed>>
  /\ UNCHANGED <<appVars, pureVars, storeVars, passVars>>

\* the keys of the kv store; a key holds <<>> (nothing stored) or <<value>>
DbKeys == {"history", "bookmarks", "masteryCards", "srsStates",
           "questionLibrary", "studyPlan", "lifetimeStats"}

\* no session completed, nothing stored, no pass run
StoreIdle ==
  /\ history = <<>>
  /\ lifetimeStats = <<>>
  /\ db = [k \in DbKeys |-> <<>>]
  /\ saves = <<>>

\* no quiz under way, the setup view shown
QuizIdle ==
  /\ session = <<>>
  /\ selectedAnswer = <<>>
  /\ pendingQuitAnswer = <<>>
  /\ showQuitConfirm = FALSE
  /\ view = "setup"
  /\ requests = <<>>

\* fetchWithRetry not called
FetchIdle ==
  /\ maxRetries = 0
  /\ retries = 0
  /\ calls = 0
  /\ pc = "idle"
  /\ outcome = <<>>

\* the application after a load that succeeded, every sync effect run
AppIdle ==
  /\ isReady = TRUE
  /\ conn = "open"
  /\ loadPhase = "done"
  /\ studyPlan = Null
  /\ effectDeps = <<>>
  /\ puts = <<>>
  /\ QuizIdle
  /\ FetchIdle

PassIdle ==
  /\ stats = <<>>
  /\ concepts = <<>>
  /\ keys = <<>>
  /\ subtopicData = <<>>
  /\ sortMethod = "weakness"
  /\ sorted = <<>>
  /\ jsonData = <<>>
  /\ imported = <<>>

Init ==
  /\ AppIdle
  /\ SRSInit
  /\ rated = <<>> /\ tags = <<>> /\ cleanTopic = <<>>
  /\ StoreIdle /\ PassIdle

\* The application over time: a click or a generation result comes one tick
\* after the event before it.
Next ==
  \/ \E q \in QuestionIds : startQuiz(q, 1)
  \/ \E q \in QuestionIds : toggleBookmark(q, 1)
  \/ \E c \in CardIds, r \in LifeRatings : onRate(c, r, 1)
  \/ \E q \in QuestionIds, f \in BOOLEAN : dissectQuestion(q, f, 0)
  \/ \E q \in QuestionIds, l \in LayerSeqs : dissectResolved(q, l, 1)
  \/ \E q \in QuestionIds : dissectRejected(q, 0)
  \/ Render
  \/ Tick

Spec == Init /\ [][Next]_vars

\* One card under every sequence of ratings, from a bookmark's baseline card
\* or from no card at all; the clock stands still.
CardNext ==
  \/ toggleBookmark("q1", 0)
  \/ \E r \in Ratings : onRate("q1", r, 0)

SpecCard == Init /\ [][CardNext]_vars

\* Fresh cards under good ratings only; the clock stands still.
GoodNext ==
  \/ \E q \in QuestionIds : toggleBookmark(q, 0)
  \/ \E c \in CardIds : onRate(c, "good", 0)

SpecGood == Init /\ [][GoodNext]_vars

\* Two questions and an artifact under every rating, one click per tick.
PairNext ==
  \/ \E q \in QuestionIds : toggleBookmark(q, 1)
  \/ \E c \in CardIds, r \in Ratings : onRate(c, r, 1)

SpecPair == Init /\ [][PairNext]_vars

\* The cards of two questions, one rating per tick, a bookmark toggled at any
\* time.
MarkNext ==
  \/ \E q \in QuestionIds, dt \in 0..1 : toggleBookmark(q, dt)
  \/ \E q \in QuestionIds, r \in Ratings : onRate(q, r, 1)

SpecMark == Init /\ [][MarkNext]_vars

----------------------------------------------------------------------------
\* The updateSRS updater as a function: one call on any stored card

InputCards ==
  [cardId : {"q1"}, nextReview : {0}, interval : 0..MaxInputInterval,
   ease : MinEase..MaxEase, repetitions : 0..MaxInputReps]

RateInit ==
  /\ AppIdle
  /\ now \in 0..MaxNow
  /\ srsStates \in {<<>>} \cup {<<c>> : c \in InputCards}
  /\ bookmarks = <<>>
  /\ questionLibrary = {}
  /\ masteryCards = <<>>
  /\ inflight = [q \in QuestionIds |-> 0]
  /\ queue = <<>>
  /\ dueSRSItems = <<>>
  /\ dueNow = 0
  /\ flushed = <<>>
  /\ rated = <<>>
  /\ tags = <<>>
  /\ cleanTopic = <<>>
  /\ StoreIdle /\ PassIdle

\* the updater of lines 227-244 run once on srsStates at time now
callUpdateSRS(cardId, rating) ==
  /\ rated = <<>>
  /\ \E s \in updateSRS(srsStates, cardId, rating, now) :
       rated' = <<[cardId |-> cardId, rating |-> rating, after |-> s]>>
  /\ UNCHANGED <<now, srsStates, bookmarks, questionLibrary, masteryCards,
                 inflight, queue, dueSRSItems, dueNow, flushed, tags,
                 cleanTopic>>
  /\ UNCHANGED <<appVars, storeVars, passVars>>

RateNext == \E r \in Ratings : callUpdateSRS("q1", r)

SpecRate == RateInit /\ [][RateNext]_vars

----------------------------------------------------------------------------
\* Properties of the rating transition

\* C1: under every sequence of ratings of a card that started at baseline or
\* absent, the ease of the card is at least 1.3 (26 twentieths) after every
\* rating.
C1_EaseFloor ==
  \A i \in DOMAIN srsStates : srsStates[i].ease >= 26

\* a card that has been rated down to the floor and rated on from there
C1_Witness ==
  \E i \in DOMAIN srsStates :
    srsStates[i].ease = 26 /\ srsStates[i].repetitions >= 3

\* the card the recorded call found, and the card it left
RatedBefore ==
  IF HasCard(srsStates, rated[1].cardId) THEN CardOf(srsStates, rated[1].cardId)
  ELSE DefaultCard(rated[1].cardId)

RatedAfter == CardOf(rated[1].after, rated[1].cardId)

\* C2: rating a card again yields repetitions 0, interval 0 and
\* ease max(1.3, ease - 0.2), whatever interval, ease and repetitions it had.
C2_AgainResets ==
  (rated # <<>> /\ rated[1].rating = "again") =>
    /\ RatedAfter.repetitions = 0
    /\ RatedAfter.interval = 0
    /\ RatedAfter.ease = IF RatedBefore.ease - 4 >= 26
                         THEN RatedBefore.ease - 4 ELSE 26

\* again on a card with a positive interval and repetitions whose ease the
\* floor holds up
C2_Witness ==
  /\ rated # <<>>
  /\ rated[1].rating = "again"
  /\ RatedBefore.interval > 0
  /\ RatedBefore.repetitions > 0
  /\ RatedBefore.ease = 28
  /\ RatedAfter.ease = 26

\* n is Math.ceil of the double product interval * (num/den): the ceiling of
\* the exact product or, when the exact product is a positive integer and the
\* multiplier is a stored ease, possibly one more
IsCeilOfProduct(n, interval, num, den, literal) ==
  \/ den * (n - 1) < interval * num /\ interval * num <= den * n
  \/ /\ ~literal
     /\ interval > 0
     /\ den * (n - 1) = interval * num

\* C3: hard, good and easy set the interval to 1 at repetitions 0, to 6 at
\* repetitions 1 and else to ceil(interval * m), m = 1.2, the ease before the
\* rating, or 1.5 times it; add 1 to repetitions; then lower the ease by 0.15
\* with floor 1.3 (hard), raise it by 0.15 (easy) or keep it (good); and set
\* nextReview to now plus the new interval in days.
C3_SuccessTransition ==
  (rated # <<>> /\ rated[1].rating # "again") =>
    LET b == RatedBefore
        a == RatedAfter
        r == rated[1].rating
    IN  /\ b.repetitions = 0 => a.interval = 1
        /\ b.repetitions = 1 => a.interval = 6
        /\ (b.repetitions >= 2 /\ r = "hard") =>
             IsCeilOfProduct(a.interval, b.interval, 6, 5, TRUE)
        /\ (b.repetitions >= 2 /\ r = "good") =>
             IsCeilOfProduct(a.interval, b.interval, b.ease, 20, FALSE)
        /\ (b.repetitions >= 2 /\ r = "easy") =>
             IsCeilOfProduct(a.interval, b.interval, 3 * b.ease, 40, FALSE)
        /\ a.repetitions = b.repetitions + 1
        /\ r = "hard" => a.ease = (IF b.ease - 3 >= 26 THEN b.ease - 3 ELSE 26)
        /\ r = "easy" => a.ease = b.ease + 3
        /\ r = "good" => a.ease = b.ease
        /\ a.nextReview = now + a.interval * DayTicks

\* easy on a card past its second repetition, later than time 0, where
\* 1.5 * ease before the rating and after it give different intervals
C3_Witness ==
  /\ rated # <<>>
  /\ rated[1].rating = "easy"
  /\ now > 0
  /\ RatedBefore.repetitions >= 2
  /\ RatedBefore.interval = 10
  /\ RatedBefore.ease = 46
  /\ RatedAfter.interval = 35

\* the interval after n good ratings of a fresh card
RECURSIVE GoodInterval(_)
GoodInterval(n) ==
  IF n = 0 THEN 0
  ELSE IF n = 1 THEN 1
  ELSE IF n = 2 THEN 6
  ELSE (23 * GoodInterval(n - 1) + 9) \div 10

GoodStreak ==
  \A i \in DOMAIN srsStates :
    /\ srsStates[i].ease = 46
    /\ srsStates[i].interval = GoodInterval(srsStates[i].repetitions)

NeverShorter ==
  \A i \in DOMAIN srsStates : srsStates'[i].interval >= srsStates[i].interval

\* C4: from a fresh card under good ratings only, the intervals are 0, 1, 6,
\* ceil(6 * 2.3) and then ceil(previous * 2.3), and no step shortens one.
C4_GoodSequence == [](GoodStreak) /\ [][NeverShorter]_vars

\* a card four good ratings on: 0, 1, 6, 14, 33
C4_Witness ==
  \E i \in DOMAIN srsStates :
    srsStates[i].repetitions = 4 /\ srsStates[i].interval = 33

----------------------------------------------------------------------------
\* dissectClinicalTopic of AnalyticsView.tsx. A string is the sequence of its
\* characters.

MaxTags == 3

ignoreList ==
  <<
   <<"s", "t", "e", "p", " ", "1">>,
   <<"s", "t", "e", "p", " ", "2">>,
   <<"s", "t", "e", "p", " ", "3">>,
   <<"b", "o", "a", "r", "d">>,
   <<"s", "t", "y", "l", "e">>,
   <<"n", "b", "m", "e">>,
   <<"f", "r", "e", "e", " ", "1", "2", "0">>,
   <<"h", "i", "g", "h", " ", "y", "i", "e", "l", "d">>,
   <<"r", "e", "v", "i", "e", "w">>,
   <<"t", "e", "s", "t">>,
   <<"u", "s", "m", "l", "e">>,
   <<"p", "l", "a", "b">>,
   <<"c", "o", "m", "l", "e", "x">>
  >>

broadSystems ==
  <<
   <<"s", "u", "r", "g", "e", "r", "y">>,
   <<"m", "e", "d", "i", "c", "i", "n", "e">>,
   <<"p", "e", "d", "i", "a", "t", "r", "i", "c", "s">>,
   <<"o", "b", "g", "y", "n">>,
   <<"p", "s", "y", "c", "h", "i", "a", "t", "r", "y">>,
   <<"c", "a", "r", "d", "i", "o", "l", "o", "g", "y">>,
   <<"g", "i">>,
   <<"r", "e", "n", "a", "l">>,
   <<"r", "e", "s", "p", "i", "r", "a", "t", "o", "r", "y">>,
   <<"n", "e", "u", "r", "o", "l", "o", "g", "y">>,
   <<"g", "a", "s", "t", "r", "o", "e", "n", "t", "e", "r", "o", "l", "o",
     "g", "y">>,
   <<"p", "u", "l", "m", "o", "n", "o", "l", "o", "g", "y">>,
   <<"e", "n", "d", "o", "c", "r", "i", "n", "o", "l", "o", "g", "y">>,
   <<"h", "e", "m", "a", "t", "o", "l", "o", "g", "y">>,
   <<"o", "n", "c", "o", "l", "o", "g", "y">>,
   <<"i", "n", "f", "e", "c", "t", "i", "o", "u", "s", " ", "d", "i", "s",
     "e", "a", "s", "e">>,
   <<"r", "h", "e", "u", "m", "a", "t", "o", "l", "o", "g", "y">>,
   <<"d", "e", "r", "m", "a", "t", "o", "l", "o", "g", "y">>,
   <<"o", "p", "h", "t", "h", "a", "l", "m", "o", "l", "o", "g", "y">>,
   <<"e", "n", "t">>,
   <<"o", "r", "t", "h", "o", "p", "e", "d", "i", "c", "s">>,
   <<"u", "r", "o", "l", "o", "g", "y">>,
   <<"g", "y", "n", "e", "c", "o", "l", "o", "g", "y">>,
   <<"o", "b", "s", "t", "e", "t", "r", "i", "c", "s">>,
   <<"f", "a", "m", "i", "l", "y", " ", "m", "e", "d", "i", "c", "i", "n",
     "e">>,
   <<"e", "m", "e", "r", "g", "e", "n", "c", "y", " ", "m", "e", "d", "i",
     "c", "i", "n", "e">>,
   <<"i", "n", "t", "e", "r", "n", "a", "l", " ", "m", "e", "d", "i", "c",
     "i", "n", "e">>
  >>

UpperCase ==
  <<"A", "B", "C", "D", "E", "F", "G", "H", "I", "J", "K", "L", "M",
    "N", "O", "P", "Q", "R", "S", "T", "U", "V", "W", "X", "Y", "Z">>

LowerCase ==
  <<"a", "b", "c", "d", "e", "f", "g", "h", "i", "j", "k", "l", "m",
    "n", "o", "p", "q", "r", "s", "t", "u", "v", "w", "x", "y", "z">>

\* String.prototype.toLowerCase on the characters of a tag
toLowerCase(s) ==
  [i \in DOMAIN s |->
     IF \E k \in DOMAIN UpperCase : UpperCase[k] = s[i]
     THEN LowerCase[CHOOSE k \in DOMAIN UpperCase : UpperCase[k] = s[i]]
     ELSE s[i]]

\* String.prototype.includes
includes(s, term) ==
  \E i \in 0..(Len(s) - Len(term)) : SubSeq(s, i + 1, i + Len(term)) = term

\* list.some(t => lowerTag.includes(t))
some(list, lowerTag) == \E k \in DOMAIN list : includes(lowerTag, list[k])

\* slip: a broad tag is returned as soon as it is met
RECURSIVE scanTagsBroadAtOnce(_, _)
scanTagsBroadAtOnce(tags_, fallbackBroadSystem) ==
  IF tags_ = <<>> THEN fallbackBroadSystem
  ELSE LET tag      == Head(tags_)
           lowerTag == toLowerCase(tag)
       IN  IF some(ignoreList, lowerTag)
           THEN scanTagsBroadAtOnce(Tail(tags_), fallbackBroadSystem)
           ELSE <<tag>>

\* the for loop of lines 19-32 over the tags left; null is <<>> and a tag t
\* is <<t>>
RECURSIVE scanTags(_, _)
scanTags(tags_, fallbackBroadSystem) ==
  IF tags_ = <<>> THEN fallbackBroadSystem
  ELSE LET tag      == Head(tags_)
           lowerTag == toLowerCase(tag)
       IN  IF some(ignoreList, lowerTag)
           THEN scanTags(Tail(tags_), fallbackBroadSystem)
           ELSE IF some(broadSystems, lowerTag)
           THEN scanTags(Tail(tags_),
                         IF fallbackBroadSystem = <<>> THEN <<tag>>
                         ELSE fallbackBroadSystem)
           ELSE <<tag>>

dissectClinicalTopic(tags_) ==
  IF Len(tags_) = 0 THEN <<>> ELSE scanTags(tags_, <<>>)

\* tags of a question, as the generator and imports write them
TagPool ==
  {
   <<"S", "t", "e", "p", " ", "2">>,
   <<"C", "a", "r", "d", "i", "o", "l", "o", "g", "y">>,
   <<"S", "e", "p", "s", "i", "s">>,
   <<"U", "S", "M", "L", "E", " ", "S", "u", "r", "g", "e", "r", "y">>,
   <<"A", "n", "g", "i", "n", "a">>,
   <<"S", "t", "r", "o", "k", "e">>,
   <<"N", "B", "M", "E">>,
   <<>>
  }

TagSeqs == UNION {[1..n -> TagPool] : n \in 0..MaxTags}

TopicInit ==
  /\ AppIdle
  /\ SRSInit
  /\ rated = <<>>
  /\ tags \in TagSeqs
  /\ cleanTopic = <<>>
  /\ StoreIdle /\ PassIdle

\* const cleanTopic = dissectClinicalTopic(q.tags || []), line 224
callDissectClinicalTopic ==
  /\ cleanTopic = <<>>
  /\ cleanTopic' = <<dissectClinicalTopic(tags)>>
  /\ UNCHANGED <<now, srsStates, bookmarks, questionLibrary, masteryCards,
                 inflight, queue, dueSRSItems, dueNow, flushed, rated, tags>>
  /\ UNCHANGED <<appVars, storeVars, passVars>>

TopicNext == callDissectClinicalTopic

SpecTopic == TopicInit /\ [][TopicNext]_vars

----------------------------------------------------------------------------
\* The bucket keys of one answered question, AnalyticsView.tsx lines 224-236

MaxConcepts == 3

RECURSIVE addAll(_, _)
\* Set.prototype.add of each element in turn: a Set keeps the first
\* occurrence of each key, in insertion order
addAll(set, items) ==
  IF items = <<>> THEN set
  ELSE addAll(IF \E i \in DOMAIN set : set[i] = Head(items) THEN set
              ELSE Append(set, Head(items)),
              Tail(items))

\* slip: the bare topic is counted beside its composite keys
keysToTrackWithTopic(tags_, concepts_) ==
  LET topic == dissectClinicalTopic(tags_)
  IN  IF topic # <<>> /\ topic[1] # <<>>
      THEN addAll(<<topic[1]>>,
                  [i \in DOMAIN concepts_ |->
                     topic[1] \o <<":", " ">> \o concepts_[i]])
      ELSE addAll(<<>>, concepts_)

\* keysToTrack, a Set; `if (cleanTopic)` fails for null and for the empty
\* string
keysToTrack(tags_, concepts_) ==
  LET topic == dissectClinicalTopic(tags_)
  IN  IF topic # <<>> /\ topic[1] # <<>>
      THEN IF Len(concepts_) > 0
           THEN addAll(<<>>, [i \in DOMAIN concepts_ |->
                                topic[1] \o <<":", " ">> \o concepts_[i]])
           ELSE addAll(<<>>, <<topic[1]>>)
      ELSE IF Len(concepts_) > 0
           THEN addAll(<<>>, concepts_)
           ELSE <<>>

\* q.tags of the answered question
KeyTags ==
  {<<>>,
   <<<<"S", "e", "p", "s", "i", "s">>>>,
   <<<<"C", "a", "r", "d", "i", "o", "l", "o", "g", "y">>, <<"S", "e", "p", "s", "i", "s">>>>,
   <<<<"C", "a", "r", "d", "i", "o", "l", "o", "g", "y">>, <<"N", "B", "M", "E">>>>,
   <<<<"N", "B", "M", "E">>>>,
   << <<>> >>}

ConceptPool ==
  {<<"S", "h", "o", "c", "k">>,
   <<"L", "a", "c", "t", "a", "t", "e">>,
   <<"p", "H">>}

ConceptSeqs == UNION {[1..n -> ConceptPool] : n \in 0..MaxConcepts}

KeysInit ==
  /\ AppIdle
  /\ SRSInit
  /\ rated = <<>> /\ cleanTopic = <<>>
  /\ StoreIdle
  /\ tags \in KeyTags
  /\ concepts \in ConceptSeqs
  /\ stats = <<>> /\ keys = <<>> /\ subtopicData = <<>>
  /\ sortMethod = "weakness" /\ sorted = <<>>
  /\ jsonData = <<>> /\ imported = <<>>

\* the keys of one detail whose question is in the library
callKeysToTrack ==
  /\ keys = <<>>
  /\ keys' = <<keysToTrack(tags, concepts)>>
  /\ UNCHANGED <<appVars, srsVars, pureVars, storeVars, stats, concepts, subtopicData,
                 sortMethod, sorted, jsonData, imported>>

KeysNext == callKeysToTrack

SpecKeys == KeysInit /\ [][KeysNext]_vars

----------------------------------------------------------------------------
\* Rounding, and the sorting of the bucket rows, AnalyticsView.tsx 257-299

MaxBuckets == 3
ValidTotal == 3
Percent == 100

\* Math.round of the double quotient num / den, num >= 0 and den > 0: the
\* nearest integer; when the exact quotient lies half way between two
\* integers the double computed for it can lie on either side
RoundDiv(num, den) ==
  LET f == num \div den
      r == num % den
  IN  IF 2 * r < den THEN {f}
      ELSE IF 2 * r > den THEN {f + 1}
      ELSE {f, f + 1}

\* Math.round((correct / total) * 100)
RoundPct(correct, total) == RoundDiv(Percent * correct, total)

\* slip: the sample threshold is left out of the weakness order
cmpWeaknessNoThreshold(a, b) ==
  IF a.accuracy - b.accuracy # 0 THEN a.accuracy - b.accuracy
  ELSE b.total - a.total

\* the comparator of lines 280-286
cmpWeakness(a, b) ==
  LET aValid == a.total >= ValidTotal
      bValid == b.total >= ValidTotal
  IN  IF aValid /\ ~bValid THEN -1
      ELSE IF ~aValid /\ bValid THEN 1
      ELSE IF a.accuracy - b.accuracy # 0 THEN a.accuracy - b.accuracy
      ELSE b.total - a.total

\* the comparator of lines 288-294
cmpStrength(a, b) ==
  LET aValid == a.total >= ValidTotal
      bValid == b.total >= ValidTotal
  IN  IF aValid /\ ~bValid THEN -1
      ELSE IF ~aValid /\ bValid THEN 1
      ELSE IF b.accuracy - a.accuracy # 0 THEN b.accuracy - a.accuracy
      ELSE b.total - a.total

\* urgency = data.total * (1 - (accuracy / 100)) of line 263 is a double:
\* urgencyExact is its exact value in hundredths and urgencySide the side of
\* it on which the double lies, for the buckets of CountPool.  10 * (1 - 0.7)
\* is 3.0000000000000004, 3 * (1 - 0.33) and 6 * (1 - 0.33) are just below
\* 2.01 and 4.02, and the products with 0, 0.4 and 1 are exact.
urgencyExact(r) == r.total * (Percent - r.accuracy)

urgencySide(r) ==
  CASE r.total = 10 /\ r.accuracy = 70 -> 1
    [] r.total \in {3, 6} /\ r.accuracy = 33 -> -1
    [] OTHER -> 0

\* the comparator of line 296: b.urgency - a.urgency || a.accuracy - b.accuracy
cmpUrgency(a, b) ==
  IF urgencyExact(b) - urgencyExact(a) # 0
  THEN urgencyExact(b) - urgencyExact(a)
  ELSE IF urgencySide(b) - urgencySide(a) # 0
  THEN urgencySide(b) - urgencySide(a)
  ELSE a.accuracy - b.accuracy

compareFn(method, a, b) ==
  CASE method = "weakness" -> cmpWeakness(a, b)
    [] method = "strength" -> cmpStrength(a, b)
    [] method = "urgency"  -> cmpUrgency(a, b)

\* Array.prototype.sort is stable: x goes before the first row it is
\* strictly less than
insertRow(rows, x, method) ==
  LET before == {i \in DOMAIN rows : compareFn(method, x, rows[i]) < 0}
      at     == IF before = {} THEN Len(rows) + 1
                ELSE CHOOSE i \in before : \A j \in before : i <= j
  IN  SubSeq(rows, 1, at - 1) \o <<x>> \o SubSeq(rows, at, Len(rows))

RECURSIVE sortRows(_, _)
sortRows(rows, method) ==
  IF rows = <<>> THEN <<>>
  ELSE insertRow(sortRows(SubSeq(rows, 1, Len(rows) - 1), method),
                 rows[Len(rows)], method)

\* the counts of a bucket: correct of total
CountPool ==
  {<<0, 2>>, <<2, 2>>, <<1, 3>>, <<3, 3>>, <<2, 5>>, <<5, 5>>, <<2, 6>>,
   <<0, 1>>, <<7, 10>>}

\* a row of subtopicData, lines 257-271; its name is its place among the
\* keys of tagStats
Row(i, correct, total, accuracy) ==
  [name |-> i, correct |-> correct, total |-> total, accuracy |-> accuracy]

RowPool ==
  UNION {{[correct |-> c[1], total |-> c[2], accuracy |-> a]
            : a \in RoundPct(c[1], c[2])} : c \in CountPool}

RowSeqs ==
  UNION {{[i \in 1..n |->
             Row(i, f[i].correct, f[i].total, f[i].accuracy)]
            : f \in [1..n -> RowPool]} : n \in 0..MaxBuckets}

\* the alpha order of line 298 compares names by locale and is not modelled
SortMethods == {"weakness", "strength", "urgency"}

SortInit ==
  /\ AppIdle
  /\ SRSInit
  /\ rated = <<>> /\ tags = <<>> /\ cleanTopic = <<>>
  /\ StoreIdle
  /\ subtopicData \in RowSeqs
  /\ sortMethod \in SortMethods
  /\ stats = <<>> /\ concepts = <<>> /\ keys = <<>> /\ sorted = <<>>
  /\ jsonData = <<>> /\ imported = <<>>

\* subtopicData.sort(...) under the chosen sortMethod
callSort ==
  /\ sorted = <<>>
  /\ sorted' = <<sortRows(subtopicData, sortMethod)>>
  /\ UNCHANGED <<appVars, srsVars, pureVars, storeVars, stats, concepts, keys,
                 subtopicData, sortMethod, jsonData, imported>>

SortNext == callSort

SpecSort == SortInit /\ [][SortNext]_vars

----------------------------------------------------------------------------
\* Lifetime statistics: DatabaseService.updateAnalytics (part_000 84-111)
\* and the lifetime memo of AnalyticsView (123-139).  totalHours is kept in
\* tenths of an hour.

MaxSessions == 2
MsPerHour == 3600000
HourTenths == 10
NaN == -1

RECURSIVE Sum(_, _)
\* history.reduce((acc, s) => acc + s[field], 0)
Sum(h, field) ==
  IF h = <<>> THEN 0 ELSE Head(h)[field] + Sum(Tail(h), field)

\* [...history].sort((a, b) => a.timestamp - b.timestamp)[0].timestamp
firstTimestamp(h) ==
  LET i == CHOOSE i \in DOMAIN h :
             \A j \in DOMAIN h : h[i].timestamp <= h[j].timestamp
  IN  h[i].timestamp

\* Number((totalTimeMs / 3600000).toFixed(1)), in tenths
toFixed1(totalTimeMs) == RoundDiv(HourTenths * totalTimeMs, MsPerHour)

\* Math.round((totalCorrect / totalQuestions) * 100); 0 / 0 is NaN
avgAccuracyOf(totalCorrect, totalQuestions) ==
  IF totalQuestions = 0 THEN {NaN}
  ELSE RoundPct(totalCorrect, totalQuestions)

\* the empty statistics of part_000 line 88
emptyStats(t) ==
  [totalQuestions |-> 0, totalCorrect |-> 0, totalHours |-> 0,
   avgAccuracy |-> 0, firstSessionDate |-> t]

\* slip: the first record of the list is taken for the earliest session
statsOfFirstListed(h) ==
  {[totalQuestions |-> Sum(h, "totalQuestions"),
    totalCorrect |-> Sum(h, "correctAnswers"),
    totalHours |-> hrs, avgAccuracy |-> acc,
    firstSessionDate |-> h[1].timestamp]
     : hrs \in toFixed1(Sum(h, "timeTakenMs")),
       acc \in avgAccuracyOf(Sum(h, "correctAnswers"),
                             Sum(h, "totalQuestions"))}

\* the statistics of a non-empty history, part_000 lines 93-108
statsOf(h) ==
  {[totalQuestions |-> Sum(h, "totalQuestions"),
    totalCorrect |-> Sum(h, "correctAnswers"),
    totalHours |-> hrs, avgAccuracy |-> acc,
    firstSessionDate |-> firstTimestamp(h)]
     : hrs \in toFixed1(Sum(h, "timeTakenMs")),
       acc \in avgAccuracyOf(Sum(h, "correctAnswers"),
                             Sum(h, "totalQuestions"))}

\* the value updateAnalytics stores and returns
updateAnalytics(h, t) ==
  IF Len(h) = 0 THEN {emptyStats(t)} ELSE statsOf(h)

\* the lifetime memo of AnalyticsView: the prop when there is one, null
\* (<<>>) for an empty history, else computed as updateAnalytics computes it
lifetime(h, lifetimeStats_) ==
  IF lifetimeStats_ # <<>> THEN {lifetimeStats_}
  ELSE IF Len(h) = 0 THEN {<<>>}
  ELSE {<<[totalQuestions |-> Sum(h, "totalQuestions"),
           totalCorrect |-> Sum(h, "correctAnswers"),
           totalHours |-> hrs, avgAccuracy |-> acc,
           firstSessionDate |-> firstTimestamp(h)]>>
          : hrs \in toFixed1(Sum(h, "timeTakenMs")),
            acc \in avgAccuracyOf(Sum(h, "correctAnswers"),
                                  Sum(h, "totalQuestions"))}

\* the names of two specialties; the first word of the second is longer
\* than 10 characters
InternalMedicine ==
  <<"I", "n", "t", "e", "r", "n", "a", "l", " ", "M", "e", "d", "i", "c", "i", "n", "e">>

Otolaryngology ==
  <<"O", "t", "o", "l", "a", "r", "y", "n", "g", "o", "l", "o", "g", "y">>

\* details of a session of `total` answers to one question, the first
\* `correct` of them right
detailsOf(id, correct, total) ==
  [i \in 1..total |-> [questionId |-> id, isCorrect |-> i <= correct]]

\* a HistoricalSession
Session(timestamp, correct, total, ms) ==
  [timestamp |-> timestamp, totalQuestions |-> total,
   correctAnswers |-> correct, timeTakenMs |-> ms,
   specialties |-> <<InternalMedicine>>, examTypes |-> <<"Step 2 CK">>,
   complexity |-> <<"Medium">>,
   details |-> detailsOf("q1", correct, total)]

\* sessions of 10, 8, 3 and 1 questions; 180000 ms and 540000 ms are 0.05 h
\* and 0.15 h, 1 of 8 is 12.5 percent; each at the first or the last instant
SessionPool ==
  {Session(t, c[1], c[2], c[3]) :
     t \in {1, MaxNow},
     c \in {<<7, 10, 600000>>, <<1, 8, 180000>>, <<3, 3, 540000>>,
            <<0, 1, 0>>}}

SessionSeqs == UNION {[1..n -> SessionPool] : n \in 0..MaxSessions}

----------------------------------------------------------------------------
\* Completed sessions: processSessionCompletion (App.tsx 422-454) and
\* DatabaseService.saveSession (part_000 73-82)

MaxSaves == 2

\* the ids of the questions a session answered
DetailIds(details) == {details[i].questionId : i \in DOMAIN details}

\* finalSession.userAnswers against the questions: what a finished or quit
\* quiz hands to processSessionCompletion
FinalSessions ==
  {[details |-> <<[questionId |-> "q1", isCorrect |-> TRUE]>>,
    timeTakenMs |-> 180000,
    specialties |-> <<InternalMedicine>>, examTypes |-> <<"Step 2 CK">>,
    complexity |-> <<"Medium">>],
   [details |-> <<[questionId |-> "q1", isCorrect |-> FALSE],
                  [questionId |-> "q2", isCorrect |-> TRUE]>>,
    timeTakenMs |-> 600000,
    specialties |-> <<InternalMedicine, Otolaryngology>>,
    examTypes |-> <<"Step 1">>, complexity |-> <<"Hard">>]}

\* correctCount of line 423
correctCount(details) ==
  Cardinality({i \in DOMAIN details : details[i].isCorrect})

\* newHistoryEntry of lines 438-448; id stands for the fresh randomUUID
newHistoryEntry(fs, id, t) ==
  [id |-> id, timestamp |-> t, totalQuestions |-> Len(fs.details),
   correctAnswers |-> correctCount(fs.details),
   timeTakenMs |-> fs.timeTakenMs, specialties |-> fs.specialties,
   examTypes |-> fs.examTypes, complexity |-> fs.complexity,
   details |-> fs.details]

\* the value stored under a key, or dflt when nothing is stored
Stored(key, dflt) == IF db[key] = <<>> THEN dflt ELSE db[key][1]

\* processSessionCompletion up to its await: the entry is prepended to the
\* history in memory and saveSession is called
processSessionCompletion(fs) ==
  /\ now + 1 <= MaxNow
  /\ Len(saves) < MaxSaves
  /\ DetailIds(fs.details) \subseteq questionLibrary
  /\ now' = now + 1
  /\ LET entry == newHistoryEntry(fs, Len(history) + 1, now + 1)
     IN  /\ history' = <<entry>> \o history
         /\ saves' = Append(saves, [session |-> entry, pc |-> "load",
                                    history |-> <<>>, stats |-> <<>>])
  /\ UNCHANGED <<srsStates, bookmarks, questionLibrary, masteryCards,
                 inflight, queue, dueSRSItems, dueNow, flushed>>
  /\ UNCHANGED <<appVars, pureVars, passVars, lifetimeStats, db>>

\* saveSession line 74: const history = await this.loadHistory()
loadHistory(i) ==
  /\ i \in DOMAIN saves
  /\ saves[i].pc = "load"
  /\ saves' = [saves EXCEPT ![i].pc = "set",
                            ![i].history = Stored("history", <<>>)]
  /\ UNCHANGED <<appVars, srsVars, pureVars, passVars, history, lifetimeStats, db>>

\* saveSession lines 75-76: await this.set('history', [session, ...history])
storeHistory(i) ==
  /\ i \in DOMAIN saves
  /\ saves[i].pc = "set"
  /\ LET updatedHistory == <<saves[i].session>> \o saves[i].history
     IN  /\ db' = [db EXCEPT !["history"] = <<updatedHistory>>]
         /\ saves' = [saves EXCEPT ![i].pc = "analytics",
                                   ![i].history = updatedHistory]
  /\ UNCHANGED <<appVars, srsVars, pureVars, passVars, history, lifetimeStats>>

\* saveSession line 77: await this.updateAnalytics(updatedHistory)
storeAnalytics(i) ==
  /\ i \in DOMAIN saves
  /\ saves[i].pc = "analytics"
  /\ \E st \in updateAnalytics(saves[i].history, now) :
       /\ db' = [db EXCEPT !["lifetimeStats"] = <<st>>]
       /\ saves' = [saves EXCEPT ![i].pc = "return", ![i].stats = <<st>>]
  /\ UNCHANGED <<appVars, srsVars, pureVars, passVars, history, lifetimeStats>>

\* processSessionCompletion after its await: setLifetimeStats(newLifetimeStats)
saveReturned(i) ==
  /\ i \in DOMAIN saves
  /\ saves[i].pc = "return"
  /\ lifetimeStats' = saves[i].stats
  /\ saves' = SubSeq(saves, 1, i - 1) \o SubSeq(saves, i + 1, Len(saves))
  /\ UNCHANGED <<appVars, srsVars, pureVars, passVars, history, db>>

----------------------------------------------------------------------------
\* The stats memo of AnalyticsView (141-351): tag analysis, bucket rows,
\* timeline and time figures

MaxRecent == 5
SecondsPerTenth == 360
MsPerSecond == 1000
WeekDays == 7
ShortLen == 10
RadarMax == 6

\* the questions by id: their tags, clinical concepts and cognitive level
Question(id) ==
  CASE id = "q1" -> [tags |-> <<<<"C", "a", "r", "d", "i", "o", "l", "o", "g", "y">>, <<"S", "e", "p", "s", "i", "s">>>>,
                     clinicalConcepts |-> <<<<"S", "h", "o", "c", "k">>, <<"L", "a", "c", "t", "a", "t", "e">>>>,
                     cognitiveLevel |-> "Application"]
    [] id = "q2" -> [tags |-> <<<<"S", "e", "p", "s", "i", "s">>>>,
                     clinicalConcepts |-> <<<<"S", "h", "o", "c", "k">>>>,
                     cognitiveLevel |-> "Recall"]
    [] OTHER     -> [tags |-> <<<<"N", "B", "M", "E">>>>,
                     clinicalConcepts |-> <<<<"L", "a", "c", "t", "a", "t", "e">>,
                                            <<"L", "a", "c", "t", "a", "t", "e">>>>,
                     cognitiveLevel |-> "Application"]

\* slip: total counts the correct answers only
trackKeyCountsCorrect(ts, key, isCorrect) ==
  IF \E i \in DOMAIN ts : ts[i].name = key
  THEN LET i == CHOOSE i \in DOMAIN ts : ts[i].name = key
       IN  [ts EXCEPT ![i].total = @ + (IF isCorrect THEN 1 ELSE 0),
                      ![i].correct = @ + (IF isCorrect THEN 1 ELSE 0),
                      ![i].history = Append(@, isCorrect)]
  ELSE Append(ts, [name |-> key, total |-> 1,
                   correct |-> IF isCorrect THEN 1 ELSE 0,
                   history |-> <<isCorrect>>])

\* lines 239-242 for one key
trackKey(ts, key, isCorrect) ==
  IF \E i \in DOMAIN ts : ts[i].name = key
  THEN LET i == CHOOSE i \in DOMAIN ts : ts[i].name = key
       IN  [ts EXCEPT ![i].total = @ + 1,
                      ![i].correct = @ + (IF isCorrect THEN 1 ELSE 0),
                      ![i].history = Append(@, isCorrect)]
  ELSE Append(ts, [name |-> key, total |-> 1,
                   correct |-> IF isCorrect THEN 1 ELSE 0,
                   history |-> <<isCorrect>>])

RECURSIVE trackKeys(_, _, _)
\* keysToTrack.forEach
trackKeys(ts, ks, isCorrect) ==
  IF ks = <<>> THEN ts
  ELSE trackKeys(trackKey(ts, Head(ks), isCorrect), Tail(ks), isCorrect)

\* slip: the question is read without the test of line 223
trackDetailUnguarded(ts, detail, lib) ==
  trackKeys(ts,
            keysToTrack(Question(detail.questionId).tags,
                        Question(detail.questionId).clinicalConcepts),
            detail.isCorrect)

\* lines 222-244 for one detail: a question missing from the library adds
\* nothing
trackDetail(ts, detail, lib) ==
  IF detail.questionId \in lib
  THEN trackKeys(ts,
                 keysToTrack(Question(detail.questionId).tags,
                             Question(detail.questionId).clinicalConcepts),
                 detail.isCorrect)
  ELSE ts

RECURSIVE trackDetails(_, _, _)
\* session.details.forEach
trackDetails(ts, details, lib) ==
  IF details = <<>> THEN ts
  ELSE trackDetails(trackDetail(ts, Head(details), lib), Tail(details), lib)

RECURSIVE trackSessions(_, _, _)
\* history.forEach, in the order of the list
trackSessions(ts, h, lib) ==
  IF h = <<>> THEN ts
  ELSE trackSessions(trackDetails(ts, Head(h).details, lib), Tail(h), lib)

\* tagStats after the pass of lines 219-255, in key insertion order
tagStats(h, lib) == trackSessions(<<>>, h, lib)

\* data.history.slice(0, 5)
recent5(b) ==
  SubSeq(b.history, 1,
         IF Len(b.history) < MaxRecent THEN Len(b.history) ELSE MaxRecent)

\* lines 260-261
recentAccuracyOf(b, accuracy) ==
  LET r == recent5(b)
      recentCorrect == Cardinality({i \in DOMAIN r : r[i]})
  IN  IF Len(r) > 0 THEN RoundPct(recentCorrect, Len(r)) ELSE {accuracy}

\* the row of one bucket, lines 257-271
rowsOf(b) ==
  UNION {{[name |-> b.name, accuracy |-> a, correct |-> b.correct,
           total |-> b.total, recentAccuracy |-> ra]
            : ra \in recentAccuracyOf(b, a)}
           : a \in RoundPct(b.correct, b.total)}

\* the sequences that take their i-th element from the i-th set
Choices(sets) ==
  {f \in [DOMAIN sets -> UNION {sets[i] : i \in DOMAIN sets}] :
     \A i \in DOMAIN sets : f[i] \in sets[i]}

\* Object.entries(tagStats).map(...)
subtopicRows(ts) == Choices([i \in DOMAIN ts |-> rowsOf(ts[i])])

\* [...history].reverse()
reverse(h) == [i \in DOMAIN h |-> h[Len(h) + 1 - i]]

\* Math.round((s.timeTakenMs / 1000) / s.totalQuestions)
timePerQOf(ms, totalQuestions) ==
  IF totalQuestions = 0 THEN {NaN}
  ELSE RoundDiv(ms, MsPerSecond * totalQuestions)

\* one point of timelineData
pointsOf(s) ==
  {[accuracy |-> a, timePerQ |-> t, timestamp |-> s.timestamp]
     : a \in avgAccuracyOf(s.correctAnswers, s.totalQuestions),
       t \in timePerQOf(s.timeTakenMs, s.totalQuestions)}

\* slip: the history is mapped without .reverse()
timelineDataUnreversed(h) == Choices([i \in DOMAIN h |-> pointsOf(h[i])])

\* timelineData, lines 301-306
timelineData(h) == Choices([i \in DOMAIN h |-> pointsOf(reverse(h)[i])])

\* a map from names to counts, in key insertion order: correct and total
\* are added to the entry of name, which is created at 0 when missing
addCounts(map, name, correct, total) ==
  IF \E i \in DOMAIN map : map[i].name = name
  THEN LET i == CHOOSE i \in DOMAIN map : map[i].name = name
       IN  [map EXCEPT ![i].total = @ + total, ![i].correct = @ + correct]
  ELSE Append(map, [name |-> name, correct |-> correct, total |-> total])

\* spec.split(' ')[0].substring(0, 10) of line 147
shortName(spec) ==
  LET spaces == {i \in DOMAIN spec : spec[i] = " "}
      word   == IF spaces = {} THEN Len(spec)
                ELSE (CHOOSE i \in spaces : \A j \in spaces : i <= j) - 1
  IN  SubSeq(spec, 1, IF word < ShortLen THEN word ELSE ShortLen)

RECURSIVE addSession(_, _, _)
\* names.forEach of lines 146-151 and 162-166 for one session
addSession(map, names, s) ==
  IF names = <<>> THEN map
  ELSE addSession(addCounts(map, Head(names), s.correctAnswers,
                            s.totalQuestions),
                  Tail(names), s)

RECURSIVE specialtyMap(_, _)
\* lines 144-152, over the sessions h after map
specialtyMap(map, h) ==
  IF h = <<>> THEN map
  ELSE specialtyMap(
         addSession(map, [i \in DOMAIN Head(h).specialties |->
                            shortName(Head(h).specialties[i])], Head(h)),
         Tail(h))

RECURSIVE examMap(_, _)
\* lines 160-168
examMap(map, h) ==
  IF h = <<>> THEN map
  ELSE examMap(addSession(map, Head(h).examTypes, Head(h)), Tail(h))

RECURSIVE complexityMap(_, _)
\* lines 170-179; complexity is <<>> on a session that has none
complexityMap(map, h) ==
  IF h = <<>> THEN map
  ELSE complexityMap(addSession(map, Head(h).complexity, Head(h)), Tail(h))

\* rows with the rounded percentage of each entry, lines 154-158, 181-185,
\* 208-214 and 273-277
accuracyRows(map) ==
  Choices([i \in DOMAIN map |->
             {[name |-> map[i].name, accuracy |-> a, total |-> map[i].total]
                : a \in avgAccuracyOf(map[i].correct, map[i].total)}])

\* .slice(0, 6) of line 158
radarData(h) ==
  {SubSeq(rows, 1, IF Len(rows) < RadarMax THEN Len(rows) ELSE RadarMax)
     : rows \in accuracyRows(specialtyMap(<<>>, h))}

\* cognitiveMap of lines 188-192
CognitiveLevels == <<"Recall", "Application", "Integration">>

RECURSIVE cognitiveDetails(_, _, _)
\* lines 197-203 for the details of one session
cognitiveDetails(map, details, lib) ==
  IF details = <<>> THEN map
  ELSE LET d == Head(details)
       IN  cognitiveDetails(
             IF d.questionId \in lib
             THEN addCounts(map, Question(d.questionId).cognitiveLevel,
                            IF d.isCorrect THEN 1 ELSE 0, 1)
             ELSE map,
             Tail(details), lib)

RECURSIVE cognitiveMap(_, _, _)
cognitiveMap(map, h, lib) ==
  IF h = <<>> THEN map
  ELSE cognitiveMap(cognitiveDetails(map, Head(h).details, lib), Tail(h), lib)

\* cognitiveData, lines 208-214: the levels that have answers
cognitiveData(h, lib) ==
  accuracyRows(SelectSeq(
    cognitiveMap([i \in DOMAIN CognitiveLevels |->
                    [name |-> CognitiveLevels[i], correct |-> 0, total |-> 0]],
                 h, lib),
    LAMBDA e : e.total > 0))

RECURSIVE conceptList(_, _, _)
\* q.clinicalConcepts.forEach of lines 244-249
conceptList(map, cs, isCorrect) ==
  IF cs = <<>> THEN map
  ELSE conceptList(addCounts(map, Head(cs), IF isCorrect THEN 1 ELSE 0, 1),
                   Tail(cs), isCorrect)

RECURSIVE conceptDetails(_, _, _)
conceptDetails(map, details, lib) ==
  IF details = <<>> THEN map
  ELSE LET d == Head(details)
       IN  conceptDetails(
             IF d.questionId \in lib
             THEN conceptList(map, Question(d.questionId).clinicalConcepts,
                              d.isCorrect)
             ELSE map,
             Tail(details), lib)

RECURSIVE conceptStats(_, _, _)
\* conceptStats after the pass of lines 219-255
conceptStats(map, h, lib) ==
  IF h = <<>> THEN map
  ELSE conceptStats(conceptDetails(map, Head(h).details, lib), Tail(h), lib)

\* .sort((a, b) => b.total - a.total) of line 277, stable
insertByTotal(rows, x) ==
  LET before == {i \in DOMAIN rows : rows[i].total < x.total}
      at     == IF before = {} THEN Len(rows) + 1
                ELSE CHOOSE i \in before : \A j \in before : i <= j
  IN  SubSeq(rows, 1, at - 1) \o <<x>> \o SubSeq(rows, at, Len(rows))

RECURSIVE sortByTotal(_)
sortByTotal(rows) ==
  IF rows = <<>> THEN <<>>
  ELSE insertByTotal(sortByTotal(SubSeq(rows, 1, Len(rows) - 1)),
                     rows[Len(rows)])

\* conceptData, lines 273-277
conceptData(h, lib) ==
  {sortByTotal(rows) : rows \in accuracyRows(conceptStats(<<>>, h, lib))}

\* lines 329-330: Math.round(lifetime.totalHours * 3600 / totalQuestions);
\* the hours are 0 where the questions are, and 0 / 0 is NaN
avgTimePerQuestionSecOf(lt) ==
  IF lt.totalQuestions = 0 THEN {NaN}
  ELSE RoundDiv(SecondsPerTenth * lt.totalHours, lt.totalQuestions)

\* lines 333-336, in tenths
sessionsPerWeekOf(h, lt, t) ==
  LET weeksDiff == Max(1, CeilDiv(t - lt.firstSessionDate,
                                  WeekDays * DayTicks))
  IN  RoundDiv(HourTenths * Len(h), weeksDiff)

\* the null of line 142
NoStats ==
  [noData |-> TRUE, sessionsCount |-> 0, radarData |-> <<>>,
   timelineData |-> <<>>, subtopicData |-> <<>>, conceptData |-> <<>>,
   examMap |-> <<>>, complexityData |-> <<>>, cognitiveData |-> <<>>,
   avgTimePerQuestionSec |-> 0, sessionsPerWeek |-> 0]

\* the stats memo for a history, a lifetime value (<<>> is null), a library
\* and a sort method at time t
statsMemo(h, lt, lib, method, t) ==
  IF Len(h) = 0 \/ lt = <<>> THEN {NoStats}
  ELSE {[noData |-> FALSE, sessionsCount |-> Len(h), radarData |-> rd,
         timelineData |-> tl, subtopicData |-> sortRows(rows, method),
         conceptData |-> cd, examMap |-> examMap(<<>>, h),
         complexityData |-> cx, cognitiveData |-> cg,
         avgTimePerQuestionSec |-> avg, sessionsPerWeek |-> spw]
          : rd \in radarData(h),
            tl \in timelineData(h),
            rows \in subtopicRows(tagStats(h, lib)),
            cd \in conceptData(h, lib),
            cx \in accuracyRows(complexityMap(<<>>, h)),
            cg \in cognitiveData(h, lib),
            avg \in avgTimePerQuestionSecOf(lt[1]),
            spw \in sessionsPerWeekOf(h, lt[1], t)}

\* AnalyticsView rendered with the history, library and lifetimeStats of
\* App (line 632)
renderAnalytics ==
  /\ \E lt \in lifetime(history, lifetimeStats) :
       \E st \in statsMemo(history, lt, questionLibrary, sortMethod, now) :
         stats' = <<[lifetime |-> lt, stats |-> st]>>
  /\ UNCHANGED <<appVars, srsVars, pureVars, storeVars, concepts, keys, subtopicData,
                 sortMethod, sorted, jsonData, imported>>

----------------------------------------------------------------------------
\* Specifications of the history and of the analytics pass

LifetimeInit ==
  /\ AppIdle
  /\ SRSInit
  /\ rated = <<>> /\ tags = <<>> /\ cleanTopic = <<>>
  /\ history \in SessionSeqs
  /\ lifetimeStats = <<>>
  /\ db = [k \in DbKeys |-> <<>>]
  /\ saves = <<>>
  /\ PassIdle

\* updateAnalytics(history): the statistics are stored and returned
callUpdateAnalytics ==
  /\ db["lifetimeStats"] = <<>>
  /\ \E st \in updateAnalytics(history, now) :
       /\ db' = [db EXCEPT !["lifetimeStats"] = <<st>>]
       /\ lifetimeStats' = <<st>>
  /\ UNCHANGED <<appVars, srsVars, pureVars, passVars, history, saves>>

\* a render whose memos run: the first one, or one whose lifetime input is
\* not the memoised one (the deps of lines 139 and 353)
LifetimeNext ==
  \/ callUpdateAnalytics
  \/ /\ IF stats = <<>> THEN TRUE
        ELSE stats[1].lifetime \notin lifetime(history, lifetimeStats)
     /\ renderAnalytics

SpecLifetime == LifetimeInit /\ [][LifetimeNext]_vars

\* the state after initData on a database that holds the questions of
\* earlier quizzes and no session: getAllData stores and returns the empty
\* statistics
SessionInit ==
  /\ AppIdle
  /\ now = 0
  /\ srsStates = <<>>
  /\ bookmarks = <<>>
  /\ questionLibrary = QuestionIds
  /\ masteryCards = <<>>
  /\ inflight = [q \in QuestionIds |-> 0]
  /\ queue = <<>>
  /\ dueSRSItems = <<>>
  /\ dueNow = 0
  /\ flushed = <<>>
  /\ rated = <<>> /\ tags = <<>> /\ cleanTopic = <<>>
  /\ history = <<>>
  /\ lifetimeStats = <<emptyStats(0)>>
  /\ db = [k \in DbKeys |->
             CASE k = "lifetimeStats"   -> <<emptyStats(0)>>
               [] k = "questionLibrary" -> <<QuestionIds>>
               [] OTHER                 -> <<>>]
  /\ saves = <<>>
  /\ PassIdle

\* Sessions are completed one tick apart; their saves run step by step and
\* may overlap; the analytics view may be rendered at any time.
SessionNext ==
  \/ \E fs \in FinalSessions : processSessionCompletion(fs)
  \/ \E i \in 1..MaxSaves : loadHistory(i)
  \/ \E i \in 1..MaxSaves : storeHistory(i)
  \/ \E i \in 1..MaxSaves : storeAnalytics(i)
  \/ \E i \in 1..MaxSaves : saveReturned(i)
  \/ renderAnalytics

SpecSession == SessionInit /\ [][SessionNext]_vars

----------------------------------------------------------------------------
\* The tag analysis over any history: the pass of AnalyticsView on histories
\* of one or two sessions

MaxDetails == 3
MaxAnswers == 6

\* questions q1 and q2 and one more, which may be missing from the library
TagIds == {"q1", "q2", "q3"}

DetailPool == [questionId : TagIds, isCorrect : BOOLEAN]

\* the history of the answers ds, the first k of them given in the later of
\* two sessions (k = Len(ds): in one session)
historyFrom(ds, k) ==
  LET later == newHistoryEntry([details |-> SubSeq(ds, 1, k),
                                timeTakenMs |-> 600000,
                                specialties |-> <<InternalMedicine,
                                                  Otolaryngology>>,
                                examTypes |-> <<"Step 2 CK">>,
                                complexity |-> <<"Medium">>], 2, 2)
      earlier == newHistoryEntry([details |-> SubSeq(ds, k + 1, Len(ds)),
                                  timeTakenMs |-> 180000,
                                  specialties |-> <<InternalMedicine>>,
                                  examTypes |-> <<"Step 2 CK", "Step 1">>,
                                  complexity |-> <<>>], 1, 1)
  IN  IF k = Len(ds) THEN <<later>> ELSE <<later, earlier>>

TagHistories ==
  {<<>>} \cup
  UNION {{historyFrom(ds, k) : ds \in [1..n -> DetailPool], k \in 1..n}
           : n \in 1..MaxDetails}

\* answers to q1 and q2 in turn, right or wrong
AnswerSeqs(n) ==
  {[i \in 1..n |-> [questionId |-> IF i % 2 = 1 THEN "q1" ELSE "q2",
                    isCorrect |-> c[i]]] : c \in [1..n -> BOOLEAN]}

RecentHistories ==
  UNION {{historyFrom(ds, k) : ds \in AnswerSeqs(n), k \in 1..n}
           : n \in 1..MaxAnswers}

PassInit(histories, libraries) ==
  /\ AppIdle
  /\ now = 2
  /\ srsStates = <<>>
  /\ bookmarks = <<>>
  /\ questionLibrary \in libraries
  /\ masteryCards = <<>>
  /\ inflight = [q \in QuestionIds |-> 0]
  /\ queue = <<>>
  /\ dueSRSItems = <<>>
  /\ dueNow = 0
  /\ flushed = <<>>
  /\ rated = <<>> /\ tags = <<>> /\ cleanTopic = <<>>
  /\ history \in histories
  /\ lifetimeStats = <<>>
  /\ db = [k \in DbKeys |-> <<>>]
  /\ saves = <<>>
  /\ PassIdle

TagsInit == PassInit(TagHistories, {TagIds, {"q1", "q2"}, {"q2"}})

SpecTags == TagsInit /\ [][renderAnalytics]_vars

RecentInit == PassInit(RecentHistories, {TagIds})

SpecRecent == RecentInit /\ [][renderAnalytics]_vars

----------------------------------------------------------------------------
\* Import of a backup: DatabaseService.fullImport (part_000 118-175) with
\* resetData (177-186)

\* a null element of an imported history array: reading a field of it throws
NullEntry == [isNull |-> TRUE]

\* the value fullImport puts for a key the snapshot lacks (lines 149-154);
\* lifetimeStats has none and is skipped
defaultOf(key) ==
  CASE key \in {"history", "bookmarks"} -> <<>>
    [] key \in {"masteryCards", "srsStates"} -> <<>>
    [] key = "questionLibrary" -> {}
    [] OTHER -> Null

\* the store after resetData and the puts of lines 146-157; data[key] is
\* <<>> where the snapshot has no value (undefined or null) for the key
putAll(data) ==
  [key \in DbKeys |->
     IF data[key] # <<>> THEN data[key]
     ELSE IF key = "lifetimeStats" THEN <<>>
     ELSE <<defaultOf(key)>>]

\* data['history'] || [] of line 161
historyOf(data) ==
  IF data["history"] = <<>> THEN <<>> ELSE data["history"][1]

\* updateAnalytics throws on a history it cannot reduce (lines 93-95)
throws(h) == \E i \in DOMAIN h : h[i] = NullEntry

\* slip: the statistics of the snapshot are kept when it carries some
importedStatsCarried(data, t) ==
  IF data["lifetimeStats"] # <<>> THEN {data["lifetimeStats"][1]}
  ELSE updateAnalytics(historyOf(data), t)

\* the statistics stored at the end of the import (line 161)
importedStats(data, t) ==
  updateAnalytics(historyOf(data), t)

\* what JSON.parse makes of a text: a syntax error, a value that is not an
\* object (a number, a string, true, null), or an object with its keys
HistoryValues ==
  {<<>>,
   <<Session(1, 7, 10, 600000)>>,
   <<Session(2, 1, 8, 180000), Session(1, 3, 3, 540000)>>,
   <<NullEntry>>}

SnapshotValues(key) ==
  CASE key = "history" -> HistoryValues
    [] key = "bookmarks" -> {<<"q1">>}
    [] key = "masteryCards" -> {<<"m1">>}
    [] key = "srsStates" -> {<<"q1">>}
    [] key = "questionLibrary" -> {{"q1"}}
    [] key = "studyPlan" -> {"plan"}
    [] OTHER -> {[totalQuestions |-> 99, totalCorrect |-> 99,
                  totalHours |-> 9, avgAccuracy |-> 100,
                  firstSessionDate |-> 0]}

\* a key of the snapshot: no value, or one of its values
Opt(key) == {<<>>} \cup {<<v>> : v \in SnapshotValues(key)}

Snapshots ==
  {[history |-> h, bookmarks |-> b, masteryCards |-> m, srsStates |-> c,
    questionLibrary |-> q, studyPlan |-> p, lifetimeStats |-> l]
     : h \in Opt("history"), b \in Opt("bookmarks"),
       m \in Opt("masteryCards"), c \in Opt("srsStates"),
       q \in Opt("questionLibrary"), p \in Opt("studyPlan"),
       l \in Opt("lifetimeStats")}

Parsed ==
  {[kind |-> "syntax", data |-> [k \in DbKeys |-> <<>>]],
   [kind |-> "scalar", data |-> [k \in DbKeys |-> <<>>]]}
    \cup {[kind |-> "object", data |-> d] : d \in Snapshots}

\* the stores an import may find: a new one and one in use
PriorStores ==
  {[k \in DbKeys |-> IF k = "lifetimeStats" THEN <<emptyStats(0)>> ELSE <<>>],
   [history |-> <<<<Session(1, 3, 3, 540000)>>>>,
    bookmarks |-> <<<<"q2">>>>,
    masteryCards |-> <<<<>>>>,
    srsStates |-> <<<<"q2">>>>,
    questionLibrary |-> <<{"q1", "q2"}>>,
    studyPlan |-> <<Null>>,
    lifetimeStats |-> <<[totalQuestions |-> 3, totalCorrect |-> 3,
                         totalHours |-> 2, avgAccuracy |-> 100,
                         firstSessionDate |-> 1]>>]}

ImportInit ==
  /\ AppIdle
  /\ SRSInit
  /\ rated = <<>> /\ tags = <<>> /\ cleanTopic = <<>>
  /\ history = <<>>
  /\ lifetimeStats = <<>>
  /\ db \in PriorStores
  /\ saves = <<>>
  /\ stats = <<>> /\ concepts = <<>> /\ keys = <<>> /\ subtopicData = <<>>
  /\ sortMethod = "weakness" /\ sorted = <<>>
  /\ jsonData \in {<<p>> : p \in Parsed}
  /\ imported = <<>>

\* fullImport(jsonData): imported holds what it returned and the store it
\* found
fullImport ==
  /\ jsonData # <<>>
  /\ imported = <<>>
  /\ LET parsed == jsonData[1]
         data   == parsed.data
     IN  IF parsed.kind # "object"
         THEN /\ db' = db
              /\ imported' = <<[ok |-> FALSE, before |-> db]>>
         ELSE IF throws(historyOf(data))
         THEN /\ db' = putAll(data)
              /\ imported' = <<[ok |-> FALSE, before |-> db]>>
         ELSE \E st \in importedStats(data, now) :
                /\ db' = [putAll(data) EXCEPT !["lifetimeStats"] = <<st>>]
                /\ imported' = <<[ok |-> TRUE, before |-> db]>>
  /\ UNCHANGED <<appVars, srsVars, pureVars, history, lifetimeStats, saves, stats,
                 concepts, keys, subtopicData, sortMethod, sorted, jsonData>>

ImportNext == fullImport

SpecImport == ImportInit /\ [][ImportNext]_vars

----------------------------------------------------------------------------
\* The start of the application: initData (App.tsx 77-157), the sync effects
\* (170-175) and DatabaseService.init and set (part_000 21-58).  localStorage
\* holds no session to restore and no import runs (isImporting is false).

MaxPuts == 3

SyncKeys ==
  {"bookmarks", "masteryCards", "srsStates", "questionLibrary", "studyPlan"}

\* a study plan; its content plays no part
Plan == "plan"

\* the state a sync effect depends on and writes
stateOf(key) ==
  CASE key = "bookmarks" -> bookmarks
    [] key = "masteryCards" -> masteryCards
    [] key = "srsStates" -> srsStates
    [] key = "questionLibrary" -> questionLibrary
    [] OTHER -> studyPlan

\* the store of an earlier run of the application, and the store of a first
\* run
LoadStores ==
  {[history |-> <<<<Session(1, 3, 3, 540000)>>>>,
    bookmarks |-> <<<<"q2">>>>,
    masteryCards |-> <<<<[parentId |-> "q2", cards |-> <<"m1">>]>>>>,
    srsStates |-> <<<<[cardId |-> "q2", nextReview |-> 0, interval |-> 0,
                       ease |-> BaselineEase, repetitions |-> 0]>>>>,
    questionLibrary |-> <<{"q2"}>>,
    studyPlan |-> <<Plan>>,
    lifetimeStats |-> <<>>],
   [k \in DbKeys |-> <<>>]}

\* the value getAllData returns for a key (lines 189-194)
loaded(key) == Stored(key, defaultOf(key))

\* dbService.set(key, value): without a connection init() is awaited, with
\* one the put is handed to the store.  changed tells whether the effect ran
\* for a change of its state (TRUE) or of isReady alone (FALSE).
set(key, value, changed) ==
  /\ conn' = IF conn = "closed" THEN "opening" ELSE conn
  /\ puts' = Append(puts, [key |-> key, value |-> value, changed |-> changed])

\* one of the effects of lines 171-175, run after a render in which its state
\* or isReady is not what it last ran with (compared by content here: a
\* rewrite of equal content leaves the store as it is)
syncEffect(key) ==
  /\ effectDeps[key] # <<stateOf(key), isReady>>
  /\ effectDeps' = [effectDeps EXCEPT ![key] = <<stateOf(key), isReady>>]
  /\ IF isReady
     THEN /\ Len(puts) < MaxPuts
          /\ set(key, stateOf(key), effectDeps[key][1] # stateOf(key))
     ELSE UNCHANGED <<conn, puts>>
  /\ UNCHANGED <<isReady, loadPhase, studyPlan>>
  /\ UNCHANGED <<srsVars, pureVars, storeVars, passVars>>
  /\ UNCHANGED <<quizVars, fetchVars>>

\* store.put(value, key) of the oldest waiting set
put ==
  /\ conn = "open"
  /\ puts # <<>>
  /\ db' = [db EXCEPT ![Head(puts).key] = <<Head(puts).value>>]
  /\ puts' = Tail(puts)
  /\ UNCHANGED <<isReady, conn, loadPhase, studyPlan, effectDeps>>
  /\ UNCHANGED <<srsVars, pureVars, passVars, history, lifetimeStats, saves>>
  /\ UNCHANGED <<quizVars, fetchVars>>

\* request.onsuccess of init: the connection is there; initTask goes on to
\* getAllData
openSucceeds ==
  /\ conn = "opening"
  /\ conn' = "open"
  /\ loadPhase' = IF loadPhase = "init" THEN "read" ELSE loadPhase
  /\ UNCHANGED <<isReady, studyPlan, effectDeps, puts>>
  /\ UNCHANGED <<srsVars, pureVars, storeVars, passVars>>
  /\ UNCHANGED <<quizVars, fetchVars>>

\* request.onerror of init: initPromise is reset, every caller waiting for it
\* is rejected; initData catches and goes on with the empty state
openFails ==
  /\ conn = "opening"
  /\ conn' = "closed"
  /\ puts' = <<>>
  /\ IF loadPhase = "init"
     THEN loadPhase' = "rejected" /\ isReady' = TRUE
     ELSE UNCHANGED <<loadPhase, isReady>>
  /\ UNCHANGED <<studyPlan, effectDeps>>
  /\ UNCHANGED <<srsVars, pureVars, storeVars, passVars>>
  /\ UNCHANGED <<quizVars, fetchVars>>

\* the timeout of line 118 wins the race: initData catches and goes on with
\* the empty state; initTask runs on unobserved
timeout ==
  /\ ~isReady
  /\ loadPhase \in {"init", "read"}
  /\ isReady' = TRUE
  /\ UNCHANGED <<conn, loadPhase, studyPlan, effectDeps, puts>>
  /\ UNCHANGED <<srsVars, pureVars, storeVars, passVars>>
  /\ UNCHANGED <<quizVars, fetchVars>>

\* getAllData (part_000 188-208) and, when it wins the race, the setters of
\* lines 131-137 with setIsReady; after the timeout its result is dropped
getAllData ==
  /\ loadPhase = "read"
  /\ \E ls \in (IF db["lifetimeStats"] # <<>> THEN {db["lifetimeStats"][1]}
                ELSE updateAnalytics(loaded("history"), now)) :
       /\ db' = [db EXCEPT !["lifetimeStats"] = <<ls>>]
       /\ IF isReady
          THEN /\ loadPhase' = "late"
               /\ UNCHANGED <<history, lifetimeStats, srsVars, studyPlan,
                              isReady>>
          ELSE /\ loadPhase' = "done"
               /\ history' = loaded("history")
               /\ bookmarks' = loaded("bookmarks")
               /\ masteryCards' = loaded("masteryCards")
               /\ srsStates' = loaded("srsStates")
               /\ questionLibrary' = loaded("questionLibrary")
               /\ studyPlan' = loaded("studyPlan")
               /\ lifetimeStats' = <<ls>>
               /\ dueSRSItems' = computeDueSRSItems(loaded("srsStates"),
                                    loaded("questionLibrary"),
                                    loaded("masteryCards"), now)
               /\ dueNow' = now
               /\ isReady' = TRUE
               /\ UNCHANGED <<now, inflight, queue, flushed>>
  /\ UNCHANGED <<conn, effectDeps, puts, saves>>
  /\ UNCHANGED <<pureVars, passVars, quizVars, fetchVars>>

\* a click on the bookmark of q1, once the loading screen (line 547) is gone
toggleLoaded ==
  /\ isReady
  /\ toggleBookmark("q1", 0)

LoadInit ==
  /\ SRSInit
  /\ rated = <<>> /\ tags = <<>> /\ cleanTopic = <<>>
  /\ PassIdle
  /\ history = <<>>
  /\ lifetimeStats = <<>>
  /\ saves = <<>>
  /\ db \in LoadStores
  /\ isReady = FALSE
  /\ conn = "opening"
  /\ loadPhase = "init"
  /\ studyPlan = Null
  /\ effectDeps = [k \in SyncKeys |-> <<stateOf(k), FALSE>>]
  /\ puts = <<>>
  /\ QuizIdle
  /\ FetchIdle

LoadNext ==
  \/ openSucceeds
  \/ openFails
  \/ timeout
  \/ getAllData
  \/ \E k \in SyncKeys : syncEffect(k)
  \/ put
  \/ toggleLoaded

SpecLoad == LoadInit /\ [][LoadNext]_vars

----------------------------------------------------------------------------
\* fetchWithRetry (part_000 218-250).  An error is its message, as the
\* fragments the tests of lines 230-233 look for, with its status and code
\* (numbers written as strings); fn settles with a value or with an error.

MaxRetries == 5

Values == {"questions", "cards"}

Errors ==
  {[message |-> <<"got status: ", "429">>, status |-> None, code |-> None],
   [message |-> <<"exhausted">>, status |-> "RESOURCE_EXHAUSTED",
    code |-> None],
   [message |-> <<"TypeError: ", "Failed to fetch">>, status |-> None,
    code |-> None],
   [message |-> <<"unavailable">>, status |-> None, code |-> "503"],
   [message |-> <<"bad request">>, status |-> None, code |-> "400"],
   [message |-> <<"Empty response">>, status |-> None, code |-> None]}

\* status of line 225
statusOf(error) == IF error.status # None THEN error.status ELSE error.code

isRateLimit(error) ==
  \/ includes(error.message, <<"429">>)
  \/ statusOf(error) = "429"
  \/ statusOf(error) = "RESOURCE_EXHAUSTED"
  \/ includes(error.message, <<"quota">>)

isRpcError(error) ==
  \/ includes(error.message, <<"Rpc failed">>)
  \/ includes(error.message, <<"xhr error">>)
  \/ includes(error.message, <<"code: 6">>)
  \/ includes(error.message, <<"500">>)
  \/ statusOf(error) \in {"500", "503", "UNKNOWN"}
  \/ includes(error.message, <<"Failed to fetch">>)
  \/ includes(error.message, <<"NetworkError">>)

\* slip: the last allowed call is retried as well
canRetryOnceMore(error, r, m) ==
  (isRateLimit(error) \/ isRpcError(error)) /\ r <= m

\* the test of line 235
canRetry(error, r, m) ==
  (isRateLimit(error) \/ isRpcError(error)) /\ r < m

\* lines 244-247: the error thrown, its status filled in
thrown(error) ==
  IF error.status = None /\ statusOf(error) # None
  THEN [error EXCEPT !.status = statusOf(error)]
  ELSE error

\* the while test of line 220 and the call of fn; past the loop the function
\* ends without a value
callFn ==
  /\ pc = "loop"
  /\ IF retries <= maxRetries
     THEN /\ calls' = calls + 1
          /\ pc' = "await"
          /\ UNCHANGED outcome
     ELSE /\ pc' = "done"
          /\ outcome' = <<[kind |-> "returned", value |-> "undefined"]>>
          /\ UNCHANGED calls
  /\ UNCHANGED <<maxRetries, retries>>
  /\ UNCHANGED <<loadVars, quizVars, srsVars, pureVars, storeVars, passVars>>

\* the promise of fn settles
fnSettles(kind, value) ==
  /\ pc = "await"
  /\ pc' = "settled"
  /\ outcome' = <<[kind |-> kind, value |-> value]>>
  /\ UNCHANGED <<maxRetries, retries, calls>>
  /\ UNCHANGED <<loadVars, quizVars, srsVars, pureVars, storeVars, passVars>>

\* return await fn(), or the catch block of lines 222-248
resume ==
  /\ pc = "settled"
  /\ IF outcome[1].kind = "resolved"
     THEN /\ pc' = "done"
          /\ outcome' = <<[kind |-> "returned", value |-> outcome[1].value]>>
     ELSE IF canRetry(outcome[1].value, retries, maxRetries)
     THEN /\ pc' = "delay"
          /\ outcome' = <<>>
     ELSE /\ pc' = "done"
          /\ outcome' = <<[kind |-> "thrown",
                           value |-> thrown(outcome[1].value)]>>
  /\ UNCHANGED <<maxRetries, retries, calls>>
  /\ UNCHANGED <<loadVars, quizVars, srsVars, pureVars, storeVars, passVars>>

\* the timer of line 238 fires: retries++; continue
delayOver ==
  /\ pc = "delay"
  /\ retries' = retries + 1
  /\ pc' = "loop"
  /\ UNCHANGED <<maxRetries, calls, outcome>>
  /\ UNCHANGED <<loadVars, quizVars, srsVars, pureVars, storeVars, passVars>>

FetchInit ==
  /\ SRSInit
  /\ rated = <<>> /\ tags = <<>> /\ cleanTopic = <<>>
  /\ StoreIdle /\ PassIdle
  /\ isReady = TRUE
  /\ conn = "open"
  /\ loadPhase = "done"
  /\ studyPlan = Null
  /\ effectDeps = <<>>
  /\ puts = <<>>
  /\ QuizIdle
  /\ maxRetries \in 0..MaxRetries
  /\ retries = 0
  /\ calls = 0
  /\ pc = "loop"
  /\ outcome = <<>>

FetchNext ==
  \/ callFn
  \/ \E v \in Values : fnSettles("resolved", v)
  \/ \E e \in Errors : fnSettles("rejected", e)
  \/ resume
  \/ delayOver

\* every promise of fn settles and every timer fires
SpecFetch == FetchInit /\ [][FetchNext]_vars /\ WF_vars(FetchNext)

----------------------------------------------------------------------------
\* The quiz: startQuiz (App.tsx 288-369), handlePrev (371-378), handleNext
\* (380-418), handleQuitQuiz and executeQuit (512-545), with the views of
\* lines 565-646.  currentQuestionIndex counts from 0 as in the source; an
\* answer is the index of an option; a place of userAnswers never assigned
\* holds Hole.

MaxRequests == 1
MaxQuestions == 2
BatchSize == 10
SessionMs == 180000

Hole == -1
Answers == {0, 1}
QuizCounts == {1, BatchSize + 1}
InitialQuestions == {<<"q1">>, <<"q1", "q2">>}
LateQuestions == <<"q3">>

\* Question.correctIndex
correctIndex(id) == IF id = "q2" THEN 1 ELSE 0

\* arr[idx] = value on a copy of arr: places skipped are holes
setAt(arr, idx, value) ==
  [i \in 1..Max(Len(arr), idx + 1) |->
     IF i = idx + 1 THEN value
     ELSE IF i <= Len(arr) THEN arr[i]
     ELSE Hole]

\* arr[idx] ?? null
answerAt(arr, idx) ==
  IF idx < Len(arr) /\ arr[idx + 1] # Hole THEN <<arr[idx + 1]>> ELSE <<>>

\* correctCount of line 423: reduce visits the places that were assigned
correctOf(fs) ==
  Cardinality({i \in DOMAIN fs.userAnswers :
                 /\ fs.userAnswers[i] # Hole
                 /\ i \in DOMAIN fs.questions
                 /\ fs.userAnswers[i] = correctIndex(fs.questions[i])})

\* details of lines 433-436
detailsFrom(fs) ==
  [i \in DOMAIN fs.questions |->
     [questionId |-> fs.questions[i],
      isCorrect |-> /\ i \in DOMAIN fs.userAnswers
                    /\ fs.userAnswers[i] = correctIndex(fs.questions[i])]]

\* newHistoryEntry of lines 438-448 from the final session itself
entryOf(fs, id, t) ==
  [id |-> id, timestamp |-> t, totalQuestions |-> Len(fs.questions),
   correctAnswers |-> correctOf(fs), timeTakenMs |-> SessionMs,
   specialties |-> fs.specialties, examTypes |-> fs.examTypes,
   complexity |-> fs.complexity, details |-> detailsFrom(fs)]

\* processSessionCompletion(finalSession) up to its await, called by
\* handleNext and executeQuit
complete(fs) ==
  /\ now + 1 <= MaxNow
  /\ Len(saves) < MaxSaves
  /\ now' = now + 1
  /\ LET entry == entryOf(fs, Len(history) + 1, now + 1)
     IN  /\ history' = <<entry>> \o history
         /\ saves' = Append(saves, [session |-> entry, pc |-> "load",
                                    history |-> <<>>, stats |-> <<>>])

\* addToLibrary(questions) and the render
library(ids) ==
  Flush([i \in DOMAIN ids |-> Entry("library", ids[i], None, <<>>)], now)

\* startQuiz from the setup view, from its call to the end of its
\* continuation: generateQuestions returned qs
startQuizResolved(count, qs, autoReinforce) ==
  /\ view = "setup"
  /\ ~showQuitConfirm
  /\ now + 1 <= MaxNow
  /\ count > BatchSize => Len(requests) < MaxRequests
  /\ now' = now + 1
  /\ selectedAnswer' = <<>>
  /\ library(qs)
  /\ session' = <<[questions |-> qs, currentQuestionIndex |-> 0,
                   userAnswers |-> <<>>, startTime |-> now + 1,
                   specialties |-> <<InternalMedicine>>,
                   examTypes |-> <<"Step 2 CK">>,
                   complexity |-> <<"Medium">>,
                   autoReinforce |-> autoReinforce]>>
  /\ view' = "quiz"
  /\ requests' =
       IF count > BatchSize
       THEN Append(requests,
                   [kind |-> "batch", startTime |-> now + 1,
                    left |-> CeilDiv(count - BatchSize, BatchSize)])
       ELSE requests
  /\ UNCHANGED <<inflight, pendingQuitAnswer, showQuitConfirm>>
  /\ UNCHANGED <<loadVars, fetchVars, pureVars, storeVars, passVars>>

\* the buttons of the question card work on the session shown, under no
\* dialog
Shown ==
  /\ view = "quiz"
  /\ session # <<>>
  /\ ~showQuitConfirm
  /\ session[1].currentQuestionIndex < Len(session[1].questions)

\* onAnswer={setSelectedAnswer}
onAnswer(a) ==
  /\ Shown
  /\ selectedAnswer' = <<a>>
  /\ UNCHANGED <<session, pendingQuitAnswer, showQuitConfirm, view, requests>>
  /\ UNCHANGED <<loadVars, fetchVars, srsVars, pureVars, storeVars, passVars>>

handlePrev ==
  /\ Shown
  /\ session[1].currentQuestionIndex > 0
  /\ LET prevIdx == session[1].currentQuestionIndex - 1
     IN  /\ session' = <<[session[1] EXCEPT !.currentQuestionIndex = prevIdx]>>
         /\ selectedAnswer' = answerAt(session[1].userAnswers, prevIdx)
  /\ UNCHANGED <<pendingQuitAnswer, showQuitConfirm, view, requests>>
  /\ UNCHANGED <<loadVars, fetchVars, srsVars, pureVars, storeVars, passVars>>

\* slip: the quiz goes on past its last question
moreQuestionsAlways(nextIndex, questions) == nextIndex <= Len(questions)

\* nextIndex < session.questions.length
moreQuestions(nextIndex, questions) == nextIndex < Len(questions)

handleNext(manualReinforce) ==
  /\ Shown
  /\ selectedAnswer # <<>>
  /\ LET s == session[1]
         currentIdx == s.currentQuestionIndex
         currentQuestion == s.questions[currentIdx + 1]
         isCorrect == selectedAnswer[1] = correctIndex(currentQuestion)
         updatedAnswers == setAt(s.userAnswers, currentIdx, selectedAnswer[1])
         shouldReinforce ==
           \/ manualReinforce
           \/ /\ ~isCorrect
              /\ answerAt(s.userAnswers, currentIdx) = <<>>
              /\ s.autoReinforce
         nextIndex == currentIdx + 1
     IN  /\ IF moreQuestions(nextIndex, s.questions)
            THEN /\ session' = <<[s EXCEPT !.currentQuestionIndex = nextIndex,
                                           !.userAnswers = updatedAnswers]>>
                 /\ selectedAnswer' = answerAt(s.userAnswers, nextIndex)
                 /\ UNCHANGED <<now, history, saves, view>>
            ELSE /\ complete([s EXCEPT !.userAnswers = updatedAnswers])
                 /\ session' = <<>>
                 /\ view' = "results"
                 /\ UNCHANGED selectedAnswer
         /\ IF shouldReinforce
            THEN /\ Len(requests) < MaxRequests
                 /\ requests' = Append(requests,
                                       [kind |-> "remediation",
                                        startTime |-> s.startTime, left |-> 1])
            ELSE UNCHANGED requests
  /\ UNCHANGED <<pendingQuitAnswer, showQuitConfirm, lifetimeStats, db>>
  /\ UNCHANGED <<srsStates, bookmarks, questionLibrary, masteryCards,
                 inflight, queue, dueSRSItems, dueNow, flushed>>
  /\ UNCHANGED <<loadVars, fetchVars, pureVars, passVars>>

\* onQuit of the question card, with the answer it holds or null
handleQuitQuiz(currentAnswer) ==
  /\ Shown
  /\ pendingQuitAnswer' = currentAnswer
  /\ showQuitConfirm' = TRUE
  /\ UNCHANGED <<session, selectedAnswer, view, requests>>
  /\ UNCHANGED <<loadVars, fetchVars, srsVars, pureVars, storeVars, passVars>>

\* Cancel of the dialog (line 645)
cancelQuit ==
  /\ showQuitConfirm
  /\ showQuitConfirm' = FALSE
  /\ UNCHANGED <<session, selectedAnswer, pendingQuitAnswer, view, requests>>
  /\ UNCHANGED <<loadVars, fetchVars, srsVars, pureVars, storeVars, passVars>>

\* slip: every question of the session is kept
sliceAll(arr, answeredCount) == arr

\* arr.slice(0, answeredCount)
slice(arr, answeredCount) ==
  SubSeq(arr, 1, IF answeredCount < Len(arr) THEN answeredCount ELSE Len(arr))

\* finalAnswers.filter(a => a !== undefined && a !== null).length
answered(finalAnswers) ==
  Cardinality({i \in DOMAIN finalAnswers : finalAnswers[i] # Hole})

\* Quit Block of the dialog (line 646)
executeQuit ==
  /\ showQuitConfirm
  /\ showQuitConfirm' = FALSE
  /\ IF session = <<>>
     THEN UNCHANGED <<session, view, now, history, saves>>
     ELSE LET s == session[1]
              finalAnswers ==
                IF pendingQuitAnswer # <<>>
                THEN setAt(s.userAnswers, s.currentQuestionIndex,
                           pendingQuitAnswer[1])
                ELSE s.userAnswers
              answeredCount == answered(finalAnswers)
          IN  IF answeredCount = 0
              THEN /\ session' = <<>>
                   /\ view' = "setup"
                   /\ UNCHANGED <<now, history, saves>>
              ELSE /\ complete([s EXCEPT
                                  !.questions = slice(s.questions,
                                                      answeredCount),
                                  !.userAnswers = slice(finalAnswers,
                                                        answeredCount)])
                   /\ session' = <<>>
                   /\ view' = "results"
  /\ UNCHANGED <<selectedAnswer, pendingQuitAnswer, requests, lifetimeStats,
                 db>>
  /\ UNCHANGED <<srsStates, bookmarks, questionLibrary, masteryCards,
                 inflight, queue, dueSRSItems, dueNow, flushed>>
  /\ UNCHANGED <<loadVars, fetchVars, pureVars, passVars>>

\* the logo of the header (line 565) and onRestart of the results (629)
goSetup ==
  /\ view # "setup"
  /\ ~showQuitConfirm
  /\ view' = "setup"
  /\ UNCHANGED <<session, selectedAnswer, pendingQuitAnswer, showQuitConfirm,
                 requests>>
  /\ UNCHANGED <<loadVars, fetchVars, srsVars, pureVars, storeVars, passVars>>

\* onResume of the setup view (line 596)
onResume ==
  /\ view = "setup"
  /\ session # <<>>
  /\ view' = "quiz"
  /\ UNCHANGED <<session, selectedAnswer, pendingQuitAnswer, showQuitConfirm,
                 requests>>
  /\ UNCHANGED <<loadVars, fetchVars, srsVars, pureVars, storeVars, passVars>>

\* onDiscardSession of the setup view (line 597)
onDiscardSession ==
  /\ view = "setup"
  /\ session # <<>>
  /\ session' = <<>>
  /\ UNCHANGED <<selectedAnswer, pendingQuitAnswer, showQuitConfirm, view,
                 requests>>
  /\ UNCHANGED <<loadVars, fetchVars, srsVars, pureVars, storeVars, passVars>>

\* the requests after request i has settled for good
settled(i) ==
  SubSeq(requests, 1, i - 1) \o SubSeq(requests, i + 1, Len(requests))

\* the session has room for extra
Room(extra) ==
  session # <<>> => Len(session[1].questions) + Len(extra) <= MaxQuestions

\* the updater of lines 346-349 and 410-415
appendQuestions(prev, extra) ==
  IF prev = <<>> THEN <<>>
  ELSE <<[prev[1] EXCEPT !.questions = @ \o extra]>>

\* a background batch arrives (lines 343-349); the loop goes on while
\* batches are left
batchResolved(i, batch) ==
  /\ i \in DOMAIN requests
  /\ requests[i].kind = "batch"
  /\ Room(batch)
  /\ library(batch)
  /\ session' = appendQuestions(session, batch)
  /\ requests' = IF requests[i].left > 1
                 THEN [requests EXCEPT ![i].left = @ - 1]
                 ELSE settled(i)
  /\ UNCHANGED <<now, inflight, selectedAnswer, pendingQuitAnswer,
                 showQuitConfirm, view>>
  /\ UNCHANGED <<loadVars, fetchVars, pureVars, storeVars, passVars>>

\* a background batch fails (lines 350-353): break
batchRejected(i) ==
  /\ i \in DOMAIN requests
  /\ requests[i].kind = "batch"
  /\ requests' = settled(i)
  /\ UNCHANGED <<session, selectedAnswer, pendingQuitAnswer, showQuitConfirm,
                 view>>
  /\ UNCHANGED <<loadVars, fetchVars, srsVars, pureVars, storeVars, passVars>>

\* generateSimilarQuestions settles (lines 406-416); remediation is empty
\* also when it failed
remediationResolved(i, remediation) ==
  /\ i \in DOMAIN requests
  /\ requests[i].kind = "remediation"
  /\ Room(remediation)
  /\ requests' = settled(i)
  /\ IF remediation = <<>>
     THEN UNCHANGED <<session, srsStates, bookmarks, questionLibrary,
                      masteryCards, queue, dueSRSItems, dueNow, flushed>>
     ELSE /\ library(remediation)
          /\ session' = appendQuestions(session, remediation)
  /\ UNCHANGED <<now, inflight, selectedAnswer, pendingQuitAnswer,
                 showQuitConfirm, view>>
  /\ UNCHANGED <<loadVars, fetchVars, pureVars, storeVars, passVars>>

QuizInit == Init

QuizNext ==
  \/ \E count \in QuizCounts, qs \in InitialQuestions :
       startQuizResolved(count, qs, TRUE)
  \/ \E a \in Answers : onAnswer(a)
  \/ handlePrev
  \/ handleNext(FALSE)
  \/ \E a \in {<<>>, selectedAnswer} : handleQuitQuiz(a)
  \/ cancelQuit
  \/ executeQuit
  \/ goSetup
  \/ onResume
  \/ onDiscardSession
  \/ \E i \in 1..MaxRequests : batchResolved(i, LateQuestions)
  \/ \E i \in 1..MaxRequests : batchRejected(i)
  \/ \E i \in 1..MaxRequests, r \in {<<>>, LateQuestions} :
       remediationResolved(i, r)

SpecQuiz == QuizInit /\ [][QuizNext]_vars

----------------------------------------------------------------------------
\* Properties of the card collection

Sched(srs, c) ==
  IF HasCard(srs, c)
  THEN <<CardOf(srs, c).interval, CardOf(srs, c).ease, CardOf(srs, c).repetitions>>
  ELSE <<>>

RateEntry(c, r) == Entry("rate", c, r, <<>>)

\* the schedules of a and b after the updaters of q, queued together
SchedAfter(q, a, b) ==
  {<<Sched(st.srs, a), Sched(st.srs, b)>>
     : st \in ApplyQueue({Committed}, q, now)}

\* C5: a rating of card a leaves every other card as it was, and for two
\* different cards a and b the interval, ease and repetitions of both come
\* out the same with a rated before b, with b rated before a, and with each
\* rated alone from the present state.
C5_Independent ==
  \A a \in CardIds, b \in CardIds : \A ra \in Ratings, rb \in Ratings :
    a # b =>
      /\ \A s \in updateSRS(srsStates, a, ra, now) :
           /\ CardKeys(s) = CardKeys(srsStates) \cup {a}
           /\ \A c \in CardKeys(srsStates) \ {a} :
                CardOf(s, c) = CardOf(srsStates, c)
      /\ SchedAfter(<<RateEntry(a, ra), RateEntry(b, rb)>>, a, b)
           = SchedAfter(<<RateEntry(b, rb), RateEntry(a, ra)>>, a, b)
      /\ SchedAfter(<<RateEntry(a, ra), RateEntry(b, rb)>>, a, b)
           = {<<Sched(sa, a), Sched(sb, b)>>
                : sa \in updateSRS(srsStates, a, ra, now),
                  sb \in updateSRS(srsStates, b, rb, now)}

\* two cards, each rated by its own click, the second rating on its first
C5_Witness ==
  /\ Len(flushed) = 1
  /\ flushed[1].op = "rate"
  /\ \E i \in DOMAIN srsStates :
       /\ srsStates[i].cardId # flushed[1].id
       /\ srsStates[i].repetitions = 1
       /\ srsStates[i].nextReview = now
  /\ HasCard(srsStates, flushed[1].id)
  /\ CardOf(srsStates, flushed[1].id).repetitions = 1

Resolvable(c) ==
  \/ c \in questionLibrary
  \/ \E i \in DOMAIN masteryCards : InSeq(masteryCards[i].cards, c)

ItemsOf(c) == {i \in DOMAIN dueSRSItems : dueSRSItems[i].id = c}

\* C6: the due list holds exactly one item for each tracked card whose
\* nextReview is at or before the now of the list and whose id is a question
\* of the library or a stored mastery artifact, and nothing else: no card
\* that is due later, and no orphan.
C6_DueItems ==
  /\ \A c \in CardKeys(srsStates) :
       Cardinality(ItemsOf(c)) =
         IF CardOf(srsStates, c).nextReview <= dueNow /\ Resolvable(c)
         THEN 1 ELSE 0
  /\ \A i \in DOMAIN dueSRSItems :
       /\ dueSRSItems[i].id \in CardKeys(srsStates)
       /\ dueSRSItems[i].type \in {"vignette", "mastery"}

\* a due orphan is left out, a due question is listed, and a card due later
\* is not
C6_Witness ==
  /\ \E c \in CardKeys(srsStates) :
       /\ CardOf(srsStates, c).nextReview <= dueNow
       /\ ~Resolvable(c)
       /\ ItemsOf(c) = {}
  /\ \E c \in CardKeys(srsStates) :
       /\ CardOf(srsStates, c).nextReview = dueNow
       /\ ItemsOf(c) # {}
  /\ dueNow = now

\* a tracked card that is due at the now of the list
Due(c) ==
  c \in CardKeys(srsStates) /\ CardOf(srsStates, c).nextReview <= dueNow

InMastery(c) == \E i \in DOMAIN masteryCards : InSeq(masteryCards[i].cards, c)

\* the types of the items the list holds for card c
ResolvedAs(c) == {dueSRSItems[i].type : i \in ItemsOf(c)}

\* C18 as stated: a due card resolves to the question when its id is among
\* the bookmarked questions, else to the mastery artifact of that id, else
\* to nothing; never to more than one item.
C18_Bookmarked ==
  \A c \in CardIds :
    Due(c) =>
      /\ Cardinality(ItemsOf(c)) <= 1
      /\ ResolvedAs(c) =
           IF InSeq(bookmarks, c) THEN {"vignette"}
           ELSE IF InMastery(c) THEN {"mastery"}
           ELSE {}

\* C18: a due card resolves to the question when its id is in the question
\* library, bookmarked or not; else to the mastery artifact of that id; else
\* to nothing; an id found in both resolves to the question; never to more
\* than one item.
C18_Resolved ==
  \A c \in CardIds :
    Due(c) =>
      /\ Cardinality(ItemsOf(c)) <= 1
      /\ ResolvedAs(c) =
           IF c \in questionLibrary THEN {"vignette"}
           ELSE IF InMastery(c) THEN {"mastery"}
           ELSE {}

\* a due card whose id is a question of the library and a mastery artifact
\* is listed as the question, and a due artifact as an artifact
C18_Witness ==
  /\ \E c \in CardIds :
       /\ Due(c) /\ c \in questionLibrary /\ InMastery(c)
       /\ ResolvedAs(c) = {"vignette"}
  /\ \E c \in CardIds :
       /\ Due(c) /\ c \notin questionLibrary
       /\ ResolvedAs(c) = {"mastery"}

\* the states the pending updaters lead to, before those of this click
Pending(t) == ApplyQueue({Committed}, queue, t)

\* C7: bookmarking a question without a card creates its card at baseline
\* with nextReview = now, bookmarking a question with a card leaves the card
\* as it is, and removing a bookmark leaves the card as it is.
C7_BookmarkStep ==
  \A q \in QuestionIds :
    /\ (~InSeq(bookmarks, q) /\ InSeq(bookmarks', q)) =>
         \E st \in Pending(now') :
           IF HasCard(st.srs, q)
           THEN CardOf(srsStates', q) = CardOf(st.srs, q)
           ELSE CardOf(srsStates', q) =
                  [cardId |-> q, nextReview |-> now', interval |-> 0,
                   ease |-> 46, repetitions |-> 0]
    /\ (InSeq(bookmarks, q) /\ ~InSeq(bookmarks', q)) =>
         \E st \in Pending(now') :
           /\ HasCard(st.srs, q)
           /\ HasCard(srsStates', q)
           /\ CardOf(srsStates', q) = CardOf(st.srs, q)

C7_Bookmarks == [][C7_BookmarkStep]_vars

\* a bookmark placed on a new question right after the bookmark of a
\* question with a rated card was removed
C7_Witness ==
  /\ Len(flushed) = 1
  /\ flushed[1].op = "bookmark"
  /\ HasCard(srsStates, flushed[1].id)
  /\ CardOf(srsStates, flushed[1].id) =
       [cardId |-> flushed[1].id, nextReview |-> now, interval |-> 0,
        ease |-> 46, repetitions |-> 0]
  /\ now > 0
  /\ \E q \in QuestionIds :
       /\ ~InSeq(bookmarks, q)
       /\ HasCard(srsStates, q)
       /\ CardOf(srsStates, q).repetitions = 1
       /\ CardOf(srsStates, q).nextReview < now

LayerIds(layers) == {layers[i] : i \in DOMAIN layers}

\* C8: right after the artifacts generated for a question are stored, every
\* artifact has a card of its own, and each such card has interval 0,
\* repetitions 0, ease 2.1 and nextReview = now and is in the due list.
C8_GenerationStep ==
  (/\ Len(queue) = 1
   /\ queue[1].op = "dissected"
   /\ queue' = <<>>
   /\ now' = now)
  => LET layers == queue[1].layers
     IN  /\ Cardinality(LayerIds(layers)) = Len(layers)
         /\ \A c \in LayerIds(layers) :
              /\ HasCard(srsStates', c)
              /\ CardOf(srsStates', c) =
                   [cardId |-> c, nextReview |-> now', interval |-> 0,
                    ease |-> 42, repetitions |-> 0]
              /\ \E j \in DOMAIN dueSRSItems' : dueSRSItems'[j].id = c

C8_Generation == [][C8_GenerationStep]_vars

\* the ids a batch of updaters rates
RatedIds(q) ==
  UNION {IF q[i].op = "rate" THEN {q[i].id}
         ELSE IF q[i].op = "dissected" THEN LayerIds(q[i].layers)
         ELSE {} : i \in DOMAIN q}

\* C9: no step removes a tracked card id, and a step changes the interval,
\* ease, repetitions or nextReview of an existing card only when the batch
\* of updaters it applies holds a rating of that card.
C9_CardStep ==
  /\ CardKeys(srsStates) \subseteq CardKeys(srsStates')
  /\ \A c \in CardKeys(srsStates) :
       CardOf(srsStates', c) # CardOf(srsStates, c) =>
         /\ c \in RatedIds(flushed')
         /\ \E st \in ApplyQueue({Committed}, flushed', now') :
              st.srs = srsStates'

C9_Cards == [][C9_CardStep]_vars

\* generated artifacts just stored and rated, the card of a question
\* bookmarked earlier still as it was created
C9_Witness ==
  /\ Len(flushed) = 1
  /\ flushed[1].op = "dissected"
  /\ \E c \in LayerIds(flushed[1].layers) : HasCard(srsStates, c)
  /\ \E c \in CardKeys(srsStates) \ LayerIds(flushed[1].layers) :
       /\ InSeq(bookmarks, c)
       /\ CardOf(srsStates, c).nextReview < now
       /\ CardOf(srsStates, c).repetitions = 0
       /\ CardOf(srsStates, c).ease = 46

----------------------------------------------------------------------------
\* Properties of dissectClinicalTopic

\* some stretch of the tag is the term but for the case of its letters
Contains(tag, term) ==
  \E i \in 1..Len(tag), j \in 0..Len(tag) :
    /\ j - i + 1 = Len(term)
    /\ \A k \in 1..Len(term) :
         \/ tag[i + k - 1] = term[k]
         \/ \E u \in DOMAIN UpperCase :
              UpperCase[u] = tag[i + k - 1] /\ LowerCase[u] = term[k]

Ignored(tag) == \E k \in DOMAIN ignoreList : Contains(tag, ignoreList[k])

Broad(tag) == \E k \in DOMAIN broadSystems : Contains(tag, broadSystems[k])

Specific(tag) == ~Ignored(tag) /\ ~Broad(tag)

\* the first tag of ts that satisfies P, or <<>>
FirstTag(ts, P(_)) ==
  IF \E i \in DOMAIN ts : P(ts[i])
  THEN <<ts[CHOOSE i \in DOMAIN ts :
              P(ts[i]) /\ \A j \in 1..(i - 1) : ~P(ts[j])]>>
  ELSE <<>>

BroadKept(tag) == ~Ignored(tag) /\ Broad(tag)

\* C10: the result is the first tag that contains no ignore term and no
\* broad-system term; without such a tag it is the first tag that contains
\* a broad-system term and no ignore term; without either, and for the
\* empty list, it is null.
C10_Topic ==
  cleanTopic # <<>> =>
    cleanTopic[1] =
      IF FirstTag(tags, Specific) # <<>> THEN FirstTag(tags, Specific)
      ELSE FirstTag(tags, BroadKept)

\* a broad tag, then a tag with an ignore term and a broad term, then a
\* specific tag, which is the result
C10_Witness ==
  /\ Len(tags) = 3
  /\ BroadKept(tags[1])
  /\ Ignored(tags[2]) /\ Broad(tags[2])
  /\ Specific(tags[3])
  /\ cleanTopic = <<<<tags[3]>>>>

----------------------------------------------------------------------------
\* Properties of the bucket keys

\* the canonical topic of a tag list; <<>> when there is none, and an empty
\* tag is no topic
Topic(ts) ==
  LET t == IF FirstTag(ts, Specific) # <<>> THEN FirstTag(ts, Specific)
           ELSE FirstTag(ts, BroadKept)
  IN  IF t = << <<>> >> THEN <<>> ELSE t

Composite(topic, concept) == topic \o <<":", " ">> \o concept

ConceptSet == {concepts[i] : i \in DOMAIN concepts}

\* C11: with a topic and concepts the keys are the composite keys, one for
\* each concept; with a topic and no concept the only key is the topic;
\* with no topic the keys are the concepts themselves; with neither there is
\* no key.
C11_Keys ==
  keys # <<>> =>
    LET ks == {keys[1][i] : i \in DOMAIN keys[1]}
        t  == Topic(tags)
    IN  /\ (t # <<>> /\ concepts # <<>>) =>
             /\ \A c \in ConceptSet : Composite(t[1], c) \in ks
             /\ \A k \in ks : \E c \in ConceptSet : k = Composite(t[1], c)
             /\ Cardinality(ks) = Cardinality(ConceptSet)
        /\ (t # <<>> /\ concepts = <<>>) => ks = {t[1]}
        /\ (t = <<>> /\ concepts # <<>>) => ks = ConceptSet
        /\ (t = <<>> /\ concepts = <<>>) => ks = {}
        /\ Len(keys[1]) = Cardinality(ks)

\* a broad tag before a specific one, two different concepts: two composite
\* keys under the specific topic
C11_Witness ==
  /\ keys # <<>>
  /\ Len(tags) = 2
  /\ Topic(tags) = <<tags[2]>>
  /\ Cardinality(ConceptSet) = 2
  /\ Len(keys[1]) = 2
  /\ \A i \in DOMAIN keys[1] : Len(keys[1][i]) > Len(tags[2]) + 2

----------------------------------------------------------------------------
\* Properties of the bucket order

Valid(r) == r.total >= 3

\* r may stand before u under the accuracy order of the method
InOrder(method, r, u) ==
  /\ method = "weakness" => r.accuracy <= u.accuracy
  /\ method = "strength" => r.accuracy >= u.accuracy
  /\ r.accuracy = u.accuracy => r.total >= u.total

\* C12: under weakness and strength the sorted rows are the rows given, each
\* once; no row with total < 3 stands before a row with total >= 3; and two
\* rows of the same group stand in ascending (weakness) or descending
\* (strength) accuracy, rows of equal accuracy in descending total.
C12_Sorted ==
  (sorted # <<>> /\ sortMethod \in {"weakness", "strength"}) =>
    LET out == sorted[1]
    IN  /\ Len(out) = Len(subtopicData)
        /\ \A i \in DOMAIN subtopicData :
             Cardinality({j \in DOMAIN out : out[j] = subtopicData[i]}) = 1
        /\ \A i \in DOMAIN out : \A j \in DOMAIN out :
             i < j =>
               /\ Valid(out[j]) => Valid(out[i])
               /\ Valid(out[i]) = Valid(out[j]) =>
                    InOrder(sortMethod, out[i], out[j])

\* under weakness a bucket of total 5 and accuracy 40 has moved in front of
\* a bucket of total 2 and accuracy 0
C12_Witness ==
  /\ sorted # <<>>
  /\ sortMethod = "weakness"
  /\ Len(subtopicData) >= 2
  /\ subtopicData[1].total = 2 /\ subtopicData[1].accuracy = 0
  /\ subtopicData[2].total = 5 /\ subtopicData[2].accuracy = 40
  /\ \E i \in DOMAIN sorted[1] : \E j \in DOMAIN sorted[1] :
       /\ i < j
       /\ sorted[1][i] = subtopicData[2]
       /\ sorted[1][j] = subtopicData[1]

\* C21: under urgency the sorted rows are the rows given, each once, in
\* descending total * (1 - accuracy / 100), rows of equal urgency in
\* ascending accuracy, whatever their totals.
C21_Urgency ==
  (sorted # <<>> /\ sortMethod = "urgency") =>
    LET out == sorted[1]
    IN  /\ Len(out) = Len(subtopicData)
        /\ \A i \in DOMAIN subtopicData :
             Cardinality({j \in DOMAIN out : out[j] = subtopicData[i]}) = 1
        /\ \A i \in DOMAIN out : \A j \in DOMAIN out :
             i < j =>
               /\ out[i].total * (100 - out[i].accuracy)
                    >= out[j].total * (100 - out[j].accuracy)
               /\ out[i].total * (100 - out[i].accuracy)
                    = out[j].total * (100 - out[j].accuracy)
                    => out[i].accuracy <= out[j].accuracy

----------------------------------------------------------------------------
\* Properties of the lifetime statistics

TotalOf(field) ==
  LET RECURSIVE Upto(_)
      Upto(n) == IF n = 0 THEN 0 ELSE history[n][field] + Upto(n - 1)
  IN  Upto(Len(history))

\* v is x / y rounded to an integer
IsRounded(v, x, y) == 2 * y * v - y <= 2 * x /\ 2 * x <= 2 * y * v + y

\* st holds the statistics of the history
Derived(st) ==
  /\ st.totalQuestions = TotalOf("totalQuestions")
  /\ st.totalCorrect = TotalOf("correctAnswers")
  /\ IsRounded(st.totalHours, 10 * TotalOf("timeTakenMs"), 3600000)
  /\ IsRounded(st.avgAccuracy, 100 * st.totalCorrect, st.totalQuestions)
  /\ \A i \in DOMAIN history : st.firstSessionDate <= history[i].timestamp
  /\ \E i \in DOMAIN history : st.firstSessionDate = history[i].timestamp

\* C14: the statistics updateAnalytics stores for a history are its sums,
\* the hours rounded to a tenth, the rounded percentage and the smallest
\* timestamp; for the empty history they are all 0; one session of 10
\* questions, 7 right, in 600000 ms gives 70 percent, 0.2 hours and 10
\* questions; and the lifetime memo computes the same from a non-empty
\* history.
C14_Lifetime ==
  /\ db["lifetimeStats"] # <<>> =>
       LET st == db["lifetimeStats"][1]
       IN  /\ history # <<>> => Derived(st)
           /\ history = <<>> =>
                /\ st.totalQuestions = 0 /\ st.totalCorrect = 0
                /\ st.totalHours = 0 /\ st.avgAccuracy = 0
           /\ (/\ Len(history) = 1
               /\ history[1].totalQuestions = 10
               /\ history[1].correctAnswers = 7
               /\ history[1].timeTakenMs = 600000) =>
                /\ st.avgAccuracy = 70
                /\ st.totalHours = 2
                /\ st.totalQuestions = 10
  /\ (stats # <<>> /\ history # <<>>) =>
       /\ stats[1].lifetime # <<>>
       /\ Derived(stats[1].lifetime[1])

\* two sessions stored newest first, so the earliest is not the first listed
C14_Witness ==
  /\ db["lifetimeStats"] # <<>>
  /\ Len(history) = 2
  /\ history[1].timestamp > history[2].timestamp
  /\ db["lifetimeStats"][1].firstSessionDate = history[2].timestamp
  /\ db["lifetimeStats"][1].totalQuestions = 18
  /\ db["lifetimeStats"][1].avgAccuracy = 44

----------------------------------------------------------------------------
\* Properties of the history and of the pass

\* a figure of the pass that is not a number
HasNaN(st) ==
  \/ st.avgTimePerQuestionSec = NaN
  \/ \E i \in DOMAIN st.timelineData :
       st.timelineData[i].accuracy = NaN \/ st.timelineData[i].timePerQ = NaN
  \/ \E i \in DOMAIN st.subtopicData :
       \/ st.subtopicData[i].accuracy = NaN
       \/ st.subtopicData[i].recentAccuracy = NaN

\* C13: a pass over any state of the application yields no NaN, every bucket
\* of its rollup has total >= 1, and a pass over an empty history yields the
\* no-data result.
C13_NoNaN ==
  stats # <<>> =>
    /\ ~HasNaN(stats[1].stats)
    /\ \A i \in DOMAIN stats[1].stats.subtopicData :
         stats[1].stats.subtopicData[i].total >= 1
    /\ history = <<>> => stats[1].stats.noData

\* C15: once no save is under way the stored history is the list of all
\* completed sessions, each once, the most recently completed first.
C15_AppendOnly ==
  saves = <<>> => Stored("history", <<>>) = history

----------------------------------------------------------------------------
\* Properties of the import

\* C16: when fullImport has returned false the store holds under every key
\* what it held before the call.
C16_Atomic ==
  (imported # <<>> /\ ~imported[1].ok) => db = imported[1].before

\* st holds the statistics of the sessions h
DerivedFrom(st, h) ==
  LET RECURSIVE Upto(_, _)
      Upto(n, field) == IF n = 0 THEN 0 ELSE h[n][field] + Upto(n - 1, field)
      total(field) == Upto(Len(h), field)
  IN  IF h = <<>>
      THEN /\ st.totalQuestions = 0 /\ st.totalCorrect = 0
           /\ st.totalHours = 0 /\ st.avgAccuracy = 0
      ELSE /\ st.totalQuestions = total("totalQuestions")
           /\ st.totalCorrect = total("correctAnswers")
           /\ IsRounded(st.totalHours, 10 * total("timeTakenMs"), 3600000)
           /\ IsRounded(st.avgAccuracy, 100 * st.totalCorrect,
                        st.totalQuestions)
           /\ \A i \in DOMAIN h : st.firstSessionDate <= h[i].timestamp
           /\ \E i \in DOMAIN h : st.firstSessionDate = h[i].timestamp

\* C17: after an import that returned true, a key the snapshot lacks holds
\* the empty list (history, bookmarks), the empty mapping (masteryCards,
\* srsStates, questionLibrary) or null (studyPlan), and the stored
\* lifetimeStats are the statistics of the stored history, whatever
\* lifetimeStats the snapshot carried.
C17_Defaults ==
  (imported # <<>> /\ imported[1].ok) =>
    LET data == jsonData[1].data
    IN  /\ \A k \in {"history", "bookmarks", "masteryCards", "srsStates"} :
             data[k] = <<>> => db[k] = <<<<>>>>
        /\ data["questionLibrary"] = <<>> => db["questionLibrary"] = <<{}>>
        /\ data["studyPlan"] = <<>> => db["studyPlan"] = <<"null">>
        /\ \A k \in DbKeys \ {"lifetimeStats"} :
             data[k] # <<>> => db[k] = data[k]
        /\ db["lifetimeStats"] # <<>>
        /\ DerivedFrom(db["lifetimeStats"][1], db["history"][1])

C17_Witness ==
  /\ imported # <<>>
  /\ imported[1].ok
  /\ jsonData[1].data["lifetimeStats"] # <<>>
  /\ jsonData[1].data["bookmarks"] = <<>>
  /\ jsonData[1].data["studyPlan"] = <<>>
  /\ Len(db["history"][1]) = 2
  /\ db["lifetimeStats"][1].totalQuestions = 11
  /\ db["bookmarks"] = <<<<>>>>
  /\ imported[1].before["bookmarks"] = <<<<"q2">>>>

----------------------------------------------------------------------------
\* Properties of the tag analysis

\* the answers of the history in the order of the pass
RECURSIVE flat(_)
flat(h) == IF h = <<>> THEN <<>> ELSE Head(h).details \o flat(Tail(h))

\* the keys derived for an answer: none when its question is not in the
\* library
KeysOf(detail) ==
  IF detail.questionId \in questionLibrary
  THEN LET ks == keysToTrack(Question(detail.questionId).tags,
                             Question(detail.questionId).clinicalConcepts)
       IN  {ks[i] : i \in DOMAIN ks}
  ELSE {}

\* the (answer, key) pairs of the history, an answer being its place in it
KeyPairs ==
  UNION {{<<i, k>> : k \in KeysOf(flat(history)[i])}
           : i \in DOMAIN flat(history)}

RECURSIVE SumRows(_, _)
SumRows(rows, field) ==
  IF rows = <<>> THEN 0 ELSE Head(rows)[field] + SumRows(Tail(rows), field)

\* C19: the totals of the topic buckets add up to the number of (answer,
\* key) pairs of the history, and their correct counts to the number of
\* those pairs whose answer is correct.
C19_Exposures ==
  stats # <<>> =>
    LET rows == stats[1].stats.subtopicData
    IN  /\ SumRows(rows, "total") = Cardinality(KeyPairs)
        /\ SumRows(rows, "correct") =
             Cardinality({p \in KeyPairs : flat(history)[p[1]].isCorrect})
        /\ \A k \in {p[2] : p \in KeyPairs} :
             Cardinality({i \in DOMAIN rows : rows[i].name = k}) = 1

\* three answers in two sessions, one to a question missing from the
\* library, one right and one wrong sharing a bucket
C19_Witness ==
  /\ stats # <<>>
  /\ Len(history) = 2
  /\ \E i \in DOMAIN flat(history) : KeysOf(flat(history)[i]) = {}
  /\ \E i \in DOMAIN flat(history) : Cardinality(KeysOf(flat(history)[i])) = 2
  /\ \E i \in DOMAIN stats[1].stats.subtopicData :
       /\ stats[1].stats.subtopicData[i].total = 2
       /\ stats[1].stats.subtopicData[i].correct = 1
  /\ SumRows(stats[1].stats.subtopicData, "total") = 3

\* the outcomes recorded for key k, the latest answer first: the sessions
\* from the latest to the earliest, the answers of each from its last to its
\* first
RECURSIVE latestFirst(_, _)
latestFirst(h, k) ==
  IF h = <<>> THEN <<>>
  ELSE LET ds == reverse(Head(h).details)
           mine == SelectSeq(ds, LAMBDA d : k \in KeysOf(d))
       IN  [i \in DOMAIN mine |-> mine[i].isCorrect] \o latestFirst(Tail(h), k)

\* C20: the recentAccuracy of a bucket is the rounded percentage of right
\* answers among its 5 latest outcomes, or among all when it has fewer, by
\* the order in which the questions were answered.
C20_Recent ==
  stats # <<>> =>
    \A i \in DOMAIN stats[1].stats.subtopicData :
      LET row == stats[1].stats.subtopicData[i]
          all == latestFirst(history, row.name)
          last == SubSeq(all, 1, IF Len(all) < 5 THEN Len(all) ELSE 5)
      IN  IsRounded(row.recentAccuracy,
                    100 * Cardinality({j \in DOMAIN last : last[j]}),
                    Len(last))

----------------------------------------------------------------------------
\* Properties of answers to questions missing from the library

\* the answers of the history whose question is in the library
Known == {i \in DOMAIN flat(history) :
            flat(history)[i].questionId \in questionLibrary}

\* the sum of field over the sessions at the places of the set sessions
RECURSIVE SumOver(_, _)
SumOver(sessions, field) ==
  IF sessions = {} THEN 0
  ELSE LET i == CHOOSE i \in sessions : TRUE
       IN  history[i][field] + SumOver(sessions \ {i}, field)

\* rows holds one row per name of names, and the row of name n counts the
\* members of members(n)
Counts(rows, names, members(_)) ==
  /\ {rows[i].name : i \in DOMAIN rows} = names
  /\ \A i \in DOMAIN rows : \A j \in DOMAIN rows :
       rows[i].name = rows[j].name => i = j
  /\ \A i \in DOMAIN rows :
       rows[i].total = Cardinality(members(rows[i].name))

\* rows holds one row per name of names, with the totals of the sessions
\* sessionsOf(n) and their rounded percentage of right answers
SessionFigures(rows, names, sessionsOf(_), rounded) ==
  /\ {rows[i].name : i \in DOMAIN rows} = names
  /\ \A i \in DOMAIN rows : \A j \in DOMAIN rows :
       rows[i].name = rows[j].name => i = j
  /\ \A i \in DOMAIN rows :
       LET ss == sessionsOf(rows[i].name)
       IN  /\ rows[i].total = SumOver(ss, "totalQuestions")
           /\ IF rounded
              THEN IsRounded(rows[i].accuracy,
                             100 * SumOver(ss, "correctAnswers"),
                             SumOver(ss, "totalQuestions"))
              ELSE rows[i].correct = SumOver(ss, "correctAnswers")

\* C23: an answer to a question missing from the library is counted in no
\* topic, concept or cognitive bucket, the answers after it are counted, and
\* the lifetime, specialty, exam type, complexity and timeline figures are
\* those of the sessions' correctAnswers and totalQuestions alone.
C23_Missing ==
  (stats # <<>> /\ history # <<>>) =>
    LET st == stats[1].stats
        answers == flat(history)
        topicOf(n) == {i \in DOMAIN answers : n \in KeysOf(answers[i])}
        conceptOf(n) ==
          {<<i, j>> \in Known \X (1..MaxConcepts) :
             /\ j <= Len(Question(answers[i].questionId).clinicalConcepts)
             /\ Question(answers[i].questionId).clinicalConcepts[j] = n}
        levelOf(n) ==
          {i \in Known : Question(answers[i].questionId).cognitiveLevel = n}
        withSpecialty(n) ==
          {i \in DOMAIN history :
             \E j \in DOMAIN history[i].specialties :
               shortName(history[i].specialties[j]) = n}
        withExam(n) ==
          {i \in DOMAIN history :
             \E j \in DOMAIN history[i].examTypes : history[i].examTypes[j] = n}
        withComplexity(n) ==
          {i \in DOMAIN history : history[i].complexity = <<n>>}
    IN  /\ ~st.noData
        /\ Counts(st.subtopicData,
                  UNION {KeysOf(answers[i]) : i \in Known}, topicOf)
        /\ Counts(st.conceptData,
                  UNION {{Question(answers[i].questionId).clinicalConcepts[j]
                            : j \in DOMAIN Question(answers[i].questionId).clinicalConcepts}
                           : i \in Known},
                  conceptOf)
        /\ Counts(st.cognitiveData,
                  {Question(answers[i].questionId).cognitiveLevel : i \in Known},
                  levelOf)
        /\ DerivedFrom(stats[1].lifetime[1], history)
        /\ SessionFigures(st.radarData,
                          UNION {{shortName(history[i].specialties[j])
                                    : j \in DOMAIN history[i].specialties}
                                   : i \in DOMAIN history},
                          withSpecialty, TRUE)
        /\ SessionFigures(st.examMap,
                          UNION {{history[i].examTypes[j]
                                    : j \in DOMAIN history[i].examTypes}
                                   : i \in DOMAIN history},
                          withExam, FALSE)
        /\ SessionFigures(st.complexityData,
                          UNION {{history[i].complexity[j]
                                    : j \in DOMAIN history[i].complexity}
                                   : i \in DOMAIN history},
                          withComplexity, TRUE)
        /\ Len(st.timelineData) = Len(history)
        /\ \A i \in DOMAIN history :
             IsRounded(st.timelineData[Len(history) + 1 - i].accuracy,
                       100 * history[i].correctAnswers,
                       history[i].totalQuestions)

\* the first answer of the pass is to a question missing from the library,
\* a later one is counted in its buckets
C23_Witness ==
  /\ stats # <<>>
  /\ Len(flat(history)) = 3
  /\ 1 \notin Known
  /\ 3 \in Known
  /\ flat(history)[3].questionId = "q2"
  /\ flat(history)[3].isCorrect
  /\ \E i \in DOMAIN stats[1].stats.cognitiveData :
       /\ stats[1].stats.cognitiveData[i].name = "Recall"
       /\ stats[1].stats.cognitiveData[i].accuracy = 100
  /\ stats[1].stats.subtopicData # <<>>

----------------------------------------------------------------------------
\* Properties of the timeline

\* points is the timeline of the sessions h: a point for each session, the
\* earliest first, with the rounded figures of its session
TimelineOf(points, h) ==
  /\ Len(points) = Len(h)
  /\ \A i \in DOMAIN points : \A j \in DOMAIN points :
       i < j => points[i].timestamp <= points[j].timestamp
  /\ \A i \in DOMAIN h :
       LET pt == points[Len(h) + 1 - i]
       IN  /\ pt.timestamp = h[i].timestamp
           /\ IsRounded(pt.accuracy, 100 * h[i].correctAnswers,
                        h[i].totalQuestions)
           /\ IsRounded(pt.timePerQ, h[i].timeTakenMs,
                        1000 * h[i].totalQuestions)

----------------------------------------------------------------------------
\* Properties of a card's repetitions and interval

\* the card of id c before a step, the default when there is none
CardBefore(c) ==
  IF HasCard(srsStates, c) THEN CardOf(srsStates, c) ELSE DefaultCard(c)

\* repetitions and interval of every card agree
Coupled ==
  \A i \in DOMAIN srsStates :
    /\ srsStates[i].repetitions = 0 <=> srsStates[i].interval = 0
    /\ srsStates[i].repetitions = 1 => srsStates[i].interval = 1
    /\ srsStates[i].repetitions >= 2 => srsStates[i].interval >= 6

\* a rating other than again, which adds a repetition, makes the interval
\* longer
Grows ==
  \A c \in CardKeys(srsStates') :
    CardOf(srsStates', c).repetitions > CardBefore(c).repetitions =>
      CardOf(srsStates', c).interval > CardBefore(c).interval

\* C26: for a card that starts at baseline or absent and is changed only by
\* ratings, repetitions = 0 exactly when interval = 0, repetitions = 1 implies
\* interval = 1, repetitions >= 2 implies interval >= 6, and every hard, good
\* or easy rating makes the interval strictly larger.
C26_Coupled == []Coupled /\ [][Grows]_vars

\* a card rated hard at its third repetition: 6 days have become 8
C26_Witness ==
  \E i \in DOMAIN srsStates :
    /\ srsStates[i].repetitions = 3
    /\ srsStates[i].interval = 8
    /\ srsStates[i].ease < BaselineEase

----------------------------------------------------------------------------
\* Properties of a load that failed

\* the load is over and did not deliver: init was rejected, or the timeout
\* came first
LoadFailed == isReady /\ loadPhase # "done"

\* C27: after the initial load has failed or timed out, the value persisted
\* under bookmarks, masteryCards, srsStates, questionLibrary or studyPlan
\* changes only by a put that a change of that piece of state caused, never
\* by a put of the in-memory state that nothing changed
C27_Kept ==
  [][\A k \in SyncKeys :
       (LoadFailed /\ db'[k] # db[k] /\ db[k] # <<>>) => Head(puts).changed]_vars

----------------------------------------------------------------------------
\* Properties of fetchWithRetry

\* the step the function takes once fn has settled
Resumed ==
  LET r == outcome[1]
      retryable == isRateLimit(r.value) \/ isRpcError(r.value)
  IN  pc = "settled" =>
        /\ r.kind = "resolved" =>
             /\ pc' = "done"
             /\ outcome' = <<[kind |-> "returned", value |-> r.value]>>
        /\ (r.kind = "rejected" /\ (~retryable \/ retries = maxRetries)) =>
             /\ pc' = "done"
             /\ outcome'[1].kind = "thrown"
             /\ outcome'[1].value.message = r.value.message
             /\ calls' = calls
        /\ (r.kind = "rejected" /\ retryable /\ retries < maxRetries) =>
             pc' = "delay"

\* the function has ended with a value of fn or with an error of fn
Ended ==
  pc = "done" =>
    /\ outcome # <<>>
    /\ \/ outcome[1].kind = "returned" /\ outcome[1].value \in Values
       \/ outcome[1].kind = "thrown"
          /\ \E e \in Errors : outcome[1].value.message = e.message

\* C30: fetchWithRetry calls fn at most maxRetries + 1 times; it returns the
\* value of the first call that succeeds, throws at once the error that is
\* not retryable, throws the error of the call made after maxRetries
\* retries, and retries otherwise; it ends, and when it has ended it has
\* returned a value of fn or thrown an error of fn.
C30_Terminates ==
  /\ [](/\ calls <= maxRetries + 1
        /\ calls = retries + (IF pc = "loop" THEN 0 ELSE 1))
  /\ []Ended
  /\ [][Resumed]_vars
  /\ <>(pc = "done")

\* the call after the last retry failed with a retryable error, which was
\* thrown
C30_Witness ==
  /\ pc = "done"
  /\ maxRetries >= 2
  /\ calls = maxRetries + 1
  /\ outcome[1].kind = "thrown"
  /\ isRpcError(outcome[1].value)

----------------------------------------------------------------------------
\* Properties of the quiz

\* the answers of the session under way once the step at hand has recorded
\* its answer: the pending answer of the dialog, or the selected one
AnswersGiven ==
  LET s == session[1]
  IN  IF showQuitConfirm
      THEN IF pendingQuitAnswer # <<>>
           THEN setAt(s.userAnswers, s.currentQuestionIndex,
                      pendingQuitAnswer[1])
           ELSE s.userAnswers
      ELSE setAt(s.userAnswers, s.currentQuestionIndex, selectedAnswer[1])

\* the places of the questions that have an answer
AnsweredPlaces ==
  {i \in DOMAIN session[1].questions :
     i <= Len(AnswersGiven) /\ AnswersGiven[i] # Hole}

\* the k-th smallest member of S
Nth(S, k) == CHOOSE x \in S : Cardinality({y \in S : y <= x}) = k

\* e records the answered questions of the session under way, in order
Records(e) ==
  /\ e.totalQuestions >= 1
  /\ Len(e.details) = e.totalQuestions
  /\ Len(e.details) = Cardinality(AnsweredPlaces)
  /\ \A k \in DOMAIN e.details :
       LET i == Nth(AnsweredPlaces, k)
       IN  /\ e.details[k].questionId = session[1].questions[i]
           /\ e.details[k].isCorrect
                <=> AnswersGiven[i] = correctIndex(session[1].questions[i])
  /\ e.correctAnswers =
       Cardinality({k \in DOMAIN e.details : e.details[k].isCorrect})
  /\ e.correctAnswers \in 0..e.totalQuestions

\* C25: the record a step adds to the history has totalQuestions >= 1 and
\* as many details; the details are the answered questions of the session,
\* in order, each with whether its answer was right; correctAnswers is the
\* number of details that are right.
C25_Record ==
  [][history' # history => session # <<>> /\ Records(Head(history'))]_vars

\* a session of two questions was quit at its second question with the
\* first one answered wrongly: the record holds that one question
C25_Witness ==
  /\ Len(history) = 1
  /\ session = <<>>
  /\ view = "results"
  /\ selectedAnswer = <<>>
  /\ history[1].totalQuestions = 1
  /\ history[1].correctAnswers = 0
  /\ history[1].details = <<[questionId |-> "q1", isCorrect |-> FALSE]>>

\* a late result settles: the requests after the step are those before it
\* but for request i, which has one batch less to go or is gone
Settles(i) ==
  \/ requests' = settled(i)
  \/ /\ requests[i].left > 1
     /\ requests' = [requests EXCEPT ![i].left = @ - 1]

\* C28: a late result of a batch or remediation request creates no session
\* when there is none, and its questions go to no session but the one the
\* request was started in.
C28_OwnSession ==
  [][\A i \in DOMAIN requests :
       (Settles(i) /\ requests' # requests) =>
         /\ session = <<>> => session' = <<>>
         /\ (session # <<>> /\ session' # session) =>
              requests[i].startTime = session[1].startTime]_vars

\* the step answers the last question of the session
LastAnswered ==
  /\ Shown
  /\ selectedAnswer # <<>>
  /\ session[1].currentQuestionIndex + 1 = Len(session[1].questions)
  /\ \/ session' = <<>>
     \/ session'[1].currentQuestionIndex > session[1].currentQuestionIndex

\* the step is the confirmed quit of a session
QuitConfirmed ==
  /\ showQuitConfirm
  /\ ~showQuitConfirm'
  /\ session # <<>>
  /\ session' # session

\* the step adds one record
OneMore == history' # history /\ Tail(history') = history

\* C29: answering the last question of a session, and the confirmed quit of
\* a session with an answered question, add one record and leave no session;
\* the confirmed quit of a session with no answered question adds no record,
\* leaves no session and shows the setup view; no other step adds a record.
C29_OneRecord ==
  [][/\ LastAnswered => OneMore /\ session' = <<>>
     /\ (QuitConfirmed /\ AnsweredPlaces # {}) => OneMore /\ session' = <<>>
     /\ (QuitConfirmed /\ AnsweredPlaces = {}) =>
          history' = history /\ session' = <<>> /\ view' = "setup"
     /\ ~(LastAnswered \/ QuitConfirmed) => history' = history]_vars

\* a session of two questions ended with the answer to its second question
C29_Witness ==
  /\ Len(history) = 1
  /\ session = <<>>
  /\ view = "results"
  /\ selectedAnswer # <<>>
  /\ history[1].totalQuestions = 2
  /\ history[1].details[2].questionId = "q2"

====
